---- MODULE Spec2Model ----
(***************************************************************************)
(* Model of the TOEFL "build a sentence" exercise engine:                  *)
(*   - fetchQuestions / getRandomQuestions  (toefl/services/questionService.ts) *)
(*   - Timer and ToeflApp                   (toefl/components/Timer.tsx)   *)
(*   - SentenceBuilder                      (unnamed/part_000)             *)
(*   - the host showing, hiding and unmounting ToeflApp (App.tsx)          *)
(* A JavaScript string is modelled as the sequence of its characters, each *)
(* character a one-character TLA+ string, so that split, trim, replace and *)
(* toLowerCase are computed and not assumed.                               *)
(***************************************************************************)
EXTENDS Integers, Sequences, FiniteSets, TLC

VARIABLES
    appState,            \* ToeflApp.appState: "LOBBY" | "LOADING" | "QUIZ" | "RESULT"
    questions,           \* ToeflApp.questions
    currentIndex,        \* ToeflApp.currentIndex (0-based, as in the code)
    results,             \* ToeflApp.results (the answer log)
    selectedDifficulty,  \* ToeflApp.selectedDifficulty (Null until chosen)
    timer,               \* the mounted Timer instance, NoTimer when none is mounted
    inflight,            \* the pending startQuiz call: its captured difficulty, or Null
    alertShown,          \* the message of the alert() raised by the last step, or NoError
    discardedLog,        \* history: the last step started a session over a non-empty log
    call,                \* the arguments of a getRandomQuestions call (selector runs)
    ret,                 \* its outcome (selector runs)
    drawn,               \* the draws Math.random gave the shuffle of the last selection
    source,              \* what the last fetch of /questions.csv resolved or rejected with
    sourceLines,         \* history: the lines that file was written with (load runs)
    loaded,              \* how the last fetchQuestions call settled
    question,            \* SentenceBuilder: its question prop, NoQuestion when not mounted
    parts,               \* SentenceBuilder.parts
    placedWords,         \* SentenceBuilder.placedWords, keyed by index into parts
    availableWords,      \* SentenceBuilder.availableWords (the word pool)
    effectDue,           \* SentenceBuilder: what the effect of [question] sets is
                         \* not rendered yet
    painted,             \* SentenceBuilder: that effect has not run either, the
                         \* render on screen is the first of the Quiz view
    event,               \* history: the last event the SentenceBuilder handled
    orphans,             \* the startQuiz calls pending in instances of ToeflApp that
                         \* were unmounted: how many per captured difficulty
    hostMounted,         \* the React root still renders the host (App.tsx)
    selectedApp,         \* App.selectedApp: Null, or the id of the application
                         \* the panel of the host shows
    currentView          \* App.currentView: "home" | "apps" | "blog"

\* the state of a load and the state of the mounted SentenceBuilder
loadVars == <<source, sourceLines, loaded>>
builderVars == <<question, parts, placedWords, availableWords, effectDue, painted, event>>
hostVars == <<orphans, hostMounted, selectedApp, currentView>>

vars == <<appState, questions, currentIndex, results, selectedDifficulty,
          timer, inflight, alertShown, discardedLog, call, ret, drawn,
          loadVars, builderVars, hostVars>>

\* ------------------------------------------------------------------------
\* Bounds of the model
\* ------------------------------------------------------------------------

\* number of record lines in the question bank served to the application
MaxRecords == 3

\* longest repository handed to the selector in the selector runs
MaxPool == 4

\* largest count asked of the selector in the selector runs
MaxCount == 3

\* longest file served in the load runs, in lines
MaxLines == 3

\* longest session of the assembler runs, in questions
MaxSession == 2

\* longest sentence submitted in the scoring runs, in characters
MaxText == 3

\* most words a SentenceBuilder holds beyond those of its question, in the
\* runs where handleWordClick is called with any word
MaxForeign == 1

\* most startQuiz calls left pending by instances of ToeflApp that the host
\* unmounted
MaxOrphans == 1

\* ------------------------------------------------------------------------
\* Strings
\* ------------------------------------------------------------------------

Null == <<"null">>

\* the characters JavaScript's \s and String.prototype.trim treat as white
\* space, within the alphabet of the model
IsSpace(c) == c \in {" ", "\t", "\n", "\r"}

RECURSIVE TrimStart(_)
TrimStart(s) ==
    IF s # <<>> /\ IsSpace(Head(s)) THEN TrimStart(Tail(s)) ELSE s

RECURSIVE TrimEnd(_)
TrimEnd(s) ==
    IF s # <<>> /\ IsSpace(s[Len(s)])
    THEN TrimEnd(SubSeq(s, 1, Len(s) - 1))
    ELSE s

\* String.prototype.trim
Trim(s) == TrimEnd(TrimStart(s))

\* String.prototype.split with a one-character separator: the pieces between
\* consecutive occurrences of sep, empty pieces included
Split(s, sep) ==
    LET at == {i \in 1..Len(s) : s[i] = sep}
        n == Cardinality(at)
        Pos(k) == IF k = 0 THEN 0
                  ELSE IF k = n + 1 THEN Len(s) + 1
                  ELSE CHOOSE i \in at : Cardinality({j \in at : j < i}) = k - 1
    IN [k \in 1..(n + 1) |-> SubSeq(s, Pos(k - 1) + 1, Pos(k) - 1)]

\* text.split(/\r?\n/): a "\r" right before a "\n" belongs to the separator
SplitLines(text) ==
    LET pieces == Split(text, "\n")
        n == Len(pieces)
        Chop(p) == IF p # <<>> /\ p[Len(p)] = "\r"
                   THEN SubSeq(p, 1, Len(p) - 1) ELSE p
    IN [k \in 1..n |-> IF k < n THEN Chop(pieces[k]) ELSE pieces[k]]

UpperCase == <<"A", "B", "C", "D", "E", "F", "G", "H", "I", "J", "K", "L", "M",
               "N", "O", "P", "Q", "R", "S", "T", "U", "V", "W", "X", "Y", "Z">>
LowerCase == <<"a", "b", "c", "d", "e", "f", "g", "h", "i", "j", "k", "l", "m",
               "n", "o", "p", "q", "r", "s", "t", "u", "v", "w", "x", "y", "z">>

ToLowerChar(c) ==
    IF \E k \in 1..26 : UpperCase[k] = c
    THEN LowerCase[CHOOSE k \in 1..26 : UpperCase[k] = c]
    ELSE c

\* String.prototype.toLowerCase
ToLowerCase(s) == [k \in 1..Len(s) |-> ToLowerChar(s[k])]

\* s.replace(/\s+/g, ' ')
RECURSIVE CollapseSpaces(_)
CollapseSpaces(s) ==
    IF s = <<>> THEN <<>>
    ELSE IF IsSpace(Head(s))
         THEN <<" ">> \o CollapseSpaces(TrimStart(s))
         ELSE <<Head(s)>> \o CollapseSpaces(Tail(s))

\* mutant: the punctuation is taken out last, after the white space is
\* collapsed and trimmed
clean_PunctuationLast(s) ==
    SelectSeq(Trim(CollapseSpaces(ToLowerCase(s))),
              LAMBDA c : c \notin {".", "?", "!", ","})

\* the normaliser of handleQuestionComplete:
\* s.replace(/[.?!,]/g, '').toLowerCase().replace(/\s+/g, ' ').trim()
clean(s) ==
    Trim(CollapseSpaces(ToLowerCase(
        SelectSeq(s, LAMBDA c : c \notin {".", "?", "!", ","}))))

\* ------------------------------------------------------------------------
\* Numbers.  JSON.parse makes of the text of a number the double nearest to
\* it, ties to the even significand; a number used as a string is written
\* with the fewest digits that still name that double (Number::toString).
\* Both are computed on exact decimals: [int, frac] holds the digits 0..9
\* before and after the point, int without a leading and frac without a
\* trailing zero.  A parsed number is kept as the text String() gives it, so
\* that two texts are equal exactly when the doubles are (0 and -0 are both
\* "0").
\* ------------------------------------------------------------------------

DecimalDigits == <<"0", "1", "2", "3", "4", "5", "6", "7", "8", "9">>

DigitOf(c) == (CHOOSE k \in 1..10 : DecimalDigits[k] = c) - 1

\* the one element of a set of one element; an expression is bound to its
\* value this way, once, where it is used many times
The(S) == CHOOSE v \in S : TRUE

\* the text of a JSON number up to its exponent, and the exponent
MantissaOf(text) ==
    IF \E k \in 1..Len(text) : text[k] \in {"e", "E"}
    THEN SubSeq(text, 1, (CHOOSE k \in 1..Len(text) :
                            /\ text[k] \in {"e", "E"}
                            /\ \A j \in 1..(k - 1) : text[j] \notin {"e", "E"}) - 1)
    ELSE text

RECURSIVE DigitsValue(_, _)
DigitsValue(digits, acc) ==
    IF digits = <<>> THEN acc
    ELSE IF acc > 100000 THEN acc
    ELSE DigitsValue(Tail(digits), 10 * acc + DigitOf(Head(digits)))

\* the exponent of a JSON number, 0 without one; beyond 100000 in size the
\* value is of no consequence: the number is 0 or Infinity
ExponentOf(text) ==
    LET rest == SubSeq(text, Len(MantissaOf(text)) + 2, Len(text))
        digits == SelectSeq(rest, LAMBDA c : c \notin {"+", "-"})
    IN  IF rest = <<>> THEN 0
        ELSE IF Head(rest) = "-" THEN 0 - DigitsValue(digits, 0)
        ELSE DigitsValue(digits, 0)

\* the decimal of the digits d with the point after the first k of them
Cut(d, k) ==
    [int  |-> SubSeq(d, IF k > 0 /\ d[1] = 0 THEN 2 ELSE 1, k),
     frac |-> SubSeq(d, k + 1, IF Len(d) > k /\ d[Len(d)] = 0 THEN Len(d) - 1 ELSE Len(d))]

\* 2 * x: every digit doubled, with the carry of the digit after it
Double(x) ==
    The({The({Cut(d, Len(x.int) + 1) :
                d \in {SubSeq([p \in 1..Len(a) |->
                                  (2 * a[p]
                                     + (IF p < Len(a) /\ a[p + 1] >= 5 THEN 1 ELSE 0)) % 10],
                               1, Len(a))}}) :
           a \in {<<0>> \o x.int \o x.frac}})

\* x / 2: every digit halved, with the remainder of the digit before it
Halve(x) ==
    The({The({Cut(d, Len(x.int)) :
                d \in {SubSeq([p \in 1..Len(a) |->
                                  (a[p] + (IF p > 1 /\ a[p - 1] % 2 = 1 THEN 10 ELSE 0))
                                     \div 2],
                               1, Len(a))}}) :
           a \in {x.int \o x.frac \o <<0>>}})

\* x * 2^q
RECURSIVE ScaleBy(_, _)
ScaleBy(x, q) ==
    IF q = 0 THEN x
    ELSE IF q = 1 THEN Double(x)
    ELSE IF q = -1 THEN Halve(x)
    ELSE LET first == IF q > 0 THEN q \div 2 ELSE 0 - ((0 - q) \div 2)
         IN  The({ScaleBy(partly, rest) :
                    partly \in {ScaleBy(x, first)}, rest \in {q - first}})

\* a < b, for digits of one length
Less(a, b) ==
    /\ \E p \in 1..Len(a) : a[p] # b[p]
    /\ \E p \in 1..Len(a) :
         /\ a[p] < b[p]
         /\ \A before \in 1..(p - 1) : a[before] = b[before]

\* 2^52 and 2^53: the significand of a normal double is in [2^52, 2^53)
TwoTo52 == <<4, 5, 0, 3, 5, 9, 9, 6, 2, 7, 3, 7, 0, 4, 9, 6>>
TwoTo53 == <<9, 0, 0, 7, 1, 9, 9, 2, 5, 4, 7, 4, 0, 9, 9, 2>>

LeadingZeros(digits) ==
    IF \A p \in 1..Len(digits) : digits[p] = 0 THEN Len(digits)
    ELSE (CHOOSE p \in 1..Len(digits) :
            digits[p] # 0 /\ \A before \in 1..(p - 1) : digits[before] = 0) - 1

TrailingZeros(digits) ==
    IF \A p \in 1..Len(digits) : digits[p] = 0 THEN Len(digits)
    ELSE Len(digits) - (CHOOSE p \in 1..Len(digits) :
                          digits[p] # 0 /\ \A after \in (p + 1)..Len(digits) : digits[after] = 0)

\* x * 2^q written as y * 2^r with y in [2^52, 2^53), or with r = -1074, the
\* exponent of the subnormal doubles, and y below 2^52
RECURSIVE ToBinade(_, _)
ToBinade(x, q) ==
    LET Scaled(by) == The({ToBinade(y, r) : y \in {ScaleBy(x, by)}, r \in {q - by}})
    IN  IF Len(x.int) > 47 THEN Scaled(-100)
        ELSE IF Len(x.int) > 19 THEN Scaled(-10)
        ELSE IF Len(x.int) > 16 \/ (Len(x.int) = 16 /\ ~Less(x.int, TwoTo53))
             THEN Scaled(-1)
        ELSE IF q = -1074 THEN [y |-> x, q |-> q]
        ELSE IF x.int = <<>> /\ LeadingZeros(x.frac) >= 31 /\ q - 100 >= -1074
             THEN Scaled(100)
        ELSE IF Len(x.int) <= 12 /\ q - 10 >= -1074 THEN Scaled(10)
        ELSE IF Len(x.int) < 16 \/ Less(x.int, TwoTo52) THEN Scaled(1)
        ELSE [y |-> x, q |-> q]

\* the integer of the digits, plus one
Increment(digits) ==
    IF \A p \in 1..Len(digits) : digits[p] = 9
    THEN <<1>> \o [p \in 1..Len(digits) |-> 0]
    ELSE The({SubSeq([p \in 1..Len(digits) |->
                         IF p < carryTo THEN digits[p]
                         ELSE IF p = carryTo THEN digits[p] + 1 ELSE 0],
                     1, Len(digits)) :
                carryTo \in {Len(digits) - TrailingZeros([p \in 1..Len(digits) |->
                                                            9 - digits[p]])}})

\* 0.d1d2... * 10^point for the digits d1d2..., as a decimal
Decimal(digits, point) ==
    IF point >= Len(digits)
    THEN [int |-> digits \o [p \in 1..(point - Len(digits)) |-> 0], frac |-> <<>>]
    ELSE IF point > 0
    THEN [int |-> SubSeq(digits, 1, point), frac |-> SubSeq(digits, point + 1, Len(digits))]
    ELSE [int |-> <<>>, frac |-> [p \in 1..(0 - point) |-> 0] \o digits]

\* y rounded to an integer, a half to the even one: the significand m and the
\* exponent q of the double
RoundBinade(binade) ==
    LET whole   == binade.y.int
        below   == binade.y.frac
        isOdd   == whole # <<>> /\ whole[Len(whole)] % 2 = 1
        roundUp == /\ below # <<>>
                   /\ \/ below[1] > 5
                      \/ /\ below[1] = 5
                         /\ (isOdd \/ \E p \in 2..Len(below) : below[p] # 0)
    IN  The({IF rounded = TwoTo53 THEN [m |-> TwoTo52, q |-> binade.q + 1]
             ELSE [m |-> rounded, q |-> binade.q] :
                rounded \in {IF roundUp THEN Increment(whole) ELSE whole}})

\* the double m * 2^q nearest to the decimal x; m is empty for 0, and q is
\* above 971 for a value that is Infinity
NearestDouble(x) == The({RoundBinade(binade) : binade \in {ToBinade(x, 0)}})

\* the digit of x at 10^e
DigitAt(x, e) ==
    IF e >= 0
    THEN (IF e < Len(x.int) THEN x.int[Len(x.int) - e] ELSE 0)
    ELSE (IF 0 - e <= Len(x.frac) THEN x.frac[0 - e] ELSE 0)

\* the digits of x from 10^(pointAt - 1) down, width of them
Aligned(x, pointAt, width) ==
    SubSeq([p \in 1..width |-> DigitAt(x, pointAt - p)], 1, width)

\* the distance from W down and up to the nearest numbers of c digits, digit
\* by digit; lastPos is the place of the last digit of W that is not 0
DownAt(W, c, p) == IF p <= c THEN 0 ELSE W[p]

UpAt(W, lastPos, c, p) ==
    IF p <= c THEN 0
    ELSE IF p < lastPos THEN 9 - W[p]
    ELSE IF p = lastPos THEN 10 - W[p] ELSE 0

\* a distance within half the gap to the next double: the text then names
\* this double; a text right between two doubles names the even one
Within(dist, bound, isEven) == Less(dist, bound) \/ (isEven /\ dist = bound)

DownOK(W, UL, lastPos, isEven, c) ==
    \/ lastPos <= c
    \/ \E down \in {SubSeq([p \in 1..Len(W) |-> DownAt(W, c, p)], 1, Len(W))} :
          Within(down, UL, isEven)

UpOK(W, U, lastPos, isEven, c) ==
    /\ lastPos > c
    /\ \E up \in {SubSeq([p \in 1..Len(W) |-> UpAt(W, lastPos, c, p)], 1, Len(W))} :
          Within(up, U, isEven)

\* with c digits, the number below is nearer than the one above (-1), as
\* near (0) or farther (1)
Nearer(W, lastPos, c) ==
    IF \A p \in 1..Len(W) : DownAt(W, c, p) = UpAt(W, lastPos, c, p) THEN 0
    ELSE IF \E p \in 1..Len(W) :
               /\ DownAt(W, c, p) < UpAt(W, lastPos, c, p)
               /\ \A before \in 1..(p - 1) :
                     DownAt(W, c, before) = UpAt(W, lastPos, c, before)
         THEN -1
         ELSE 1

\* the digits and the place n of the point (0.d1d2... * 10^n) of the number
\* of c digits that names the double: the nearer one, the even one of two
\* as near
Picked(W, U, UL, lastPos, isEven, pointAt, c) ==
    LET useUp == /\ UpOK(W, U, lastPos, isEven, c)
                 /\ \/ ~DownOK(W, UL, lastPos, isEven, c)
                    \/ Nearer(W, lastPos, c) = 1
                    \/ Nearer(W, lastPos, c) = 0 /\ W[c] % 2 = 1
    IN  The({IF Len(s) > c THEN [digits |-> <<1>>, n |-> pointAt + 1]
             ELSE [digits |-> SubSeq(s, 1, c - TrailingZeros(s)), n |-> pointAt] :
                s \in {IF useUp THEN Increment(SubSeq(W, 1, c)) ELSE SubSeq(W, 1, c)}})

\* the fewest digits, from c on, with which a number names the double
RECURSIVE FewestDigits(_, _, _, _, _, _)
FewestDigits(W, U, UL, lastPos, isEven, c) ==
    IF DownOK(W, UL, lastPos, isEven, c) \/ UpOK(W, U, lastPos, isEven, c) THEN c
    ELSE FewestDigits(W, U, UL, lastPos, isEven, c + 1)

Shortest(W, U, UL, lastPos, isEven, pointAt) ==
    The({Picked(W, U, UL, lastPos, isEven, pointAt, c) :
           c \in {FewestDigits(W, U, UL, lastPos, isEven, 1)}})

ShortestAligned(exact, halfUp, halfLow, isEven, pointAt, width) ==
    The({Shortest(W, U, UL, Len(W) - TrailingZeros(W), isEven, pointAt) :
           W \in {Aligned(exact, pointAt, width)},
           U \in {Aligned(halfUp, pointAt, width)},
           UL \in {Aligned(halfLow, pointAt, width)}})

ShortestBetween(exact, halfUp, halfLow, isEven) ==
    The({ShortestAligned(exact, halfUp, halfLow, isEven, pointAt,
                         pointAt + (IF Len(exact.frac) > Len(halfLow.frac)
                                    THEN Len(exact.frac) ELSE Len(halfLow.frac))) :
           pointAt \in {IF exact.int # <<>> THEN Len(exact.int)
                        ELSE 0 - LeadingZeros(exact.frac)}})

\* Number::toString, steps 5: the digits of the shortest decimal that names
\* the double m * 2^q.  Half the gap to the double above is 2^(q-1); the gap
\* below is half of that when m is 2^52 and the double is not subnormal.
ShortestDigits(m, q) ==
    The({ShortestBetween(exact, halfUp, halfLow, m[Len(m)] % 2 = 0) :
           exact   \in {ScaleBy([int |-> m, frac |-> <<>>], q)},
           halfUp  \in {ScaleBy([int |-> <<1>>, frac |-> <<>>], q - 1)},
           halfLow \in {ScaleBy([int |-> <<1>>, frac |-> <<>>],
                                IF m = TwoTo52 /\ q > -1074 THEN q - 2 ELSE q - 1)}})

RECURSIVE IntChars(_)
IntChars(v) ==
    IF v < 10 THEN <<DecimalDigits[v + 1]>>
    ELSE IntChars(v \div 10) \o <<DecimalDigits[(v % 10) + 1]>>

\* Number::toString, steps 6-12: the digits s of 0.s * 10^n written as an
\* integer, with a point, with zeros after "0.", or with an exponent
FormatNumber(s, n) ==
    LET fLen   == Len(s)
        fChars == SubSeq([p \in 1..fLen |-> DecimalDigits[s[p] + 1]], 1, fLen)
        fExp   == n - 1
        fTail  == <<"e", IF fExp < 0 THEN "-" ELSE "+">>
                  \o IntChars(IF fExp < 0 THEN 0 - fExp ELSE fExp)
    IN  IF fLen <= n /\ n <= 21 THEN fChars \o [p \in 1..(n - fLen) |-> "0"]
        ELSE IF 0 < n /\ n <= 21
             THEN SubSeq(fChars, 1, n) \o <<".">> \o SubSeq(fChars, n + 1, fLen)
        ELSE IF -6 < n /\ n <= 0
             THEN <<"0", ".">> \o [p \in 1..(0 - n) |-> "0"] \o fChars
        ELSE IF fLen = 1 THEN fChars \o fTail
        ELSE <<fChars[1], ".">> \o SubSeq(fChars, 2, fLen) \o fTail

\* String(x) of the double nearest to 0.written * 10^point, written without
\* a zero at either end.  A value below 10^-324 is below half the least
\* double, a value from 10^309 on is above the largest.
DecimalText(sign, written, point) ==
    LET infinity == sign \o <<"I", "n", "f", "i", "n", "i", "t", "y">>
    IN  IF written = <<>> \/ point <= -324 THEN <<"0">>
        ELSE IF point >= 310 THEN infinity
        ELSE The({IF nearest.m = <<>> THEN <<"0">>
                  ELSE IF nearest.q > 971 THEN infinity
                  ELSE The({sign \o FormatNumber(shortest.digits, shortest.n) :
                              shortest \in {ShortestDigits(nearest.m, nearest.q)}}) :
                     nearest \in {NearestDouble(Decimal(written, point))}})

DigitsText(sign, digits, point) ==
    The({DecimalText(sign, SubSeq(digits, lead + 1, Len(digits) - TrailingZeros(digits)),
                     point - lead) :
           lead \in {LeadingZeros(digits)}})

\* String(JSON.parse(text)) for the text of a JSON number
NumberText(text) ==
    The({DigitsText(IF text[1] = "-" THEN <<"-">> ELSE <<>>,
                    SubSeq([p \in 1..Len(chars) |-> DigitOf(chars[p])], 1, Len(chars)),
                    (IF \E p \in 1..Len(mantissa) : mantissa[p] = "."
                     THEN (CHOOSE p \in 1..Len(mantissa) : mantissa[p] = ".") - 1
                     ELSE Len(mantissa)) + exponent) :
           mantissa \in {SelectSeq(MantissaOf(text), LAMBDA ch : ch # "-")},
           chars    \in {SelectSeq(MantissaOf(text), LAMBDA ch : ch \notin {"-", "."})},
           exponent \in {ExponentOf(text)}})

\* ------------------------------------------------------------------------
\* JSON.parse, on the alphabet of the model (no backslash, no braces).
\* A parsed value is [type, value]: an array holds the sequence of its
\* elements, a string its characters, a number the text String() gives the
\* double that was parsed.
\* ------------------------------------------------------------------------

JsonFail == [ok |-> FALSE]

IsDigit(c) == c \in {"0", "1", "2", "3", "4", "5", "6", "7", "8", "9"}

RECURSIVE SkipWs(_, _)
SkipWs(s, i) ==
    IF i <= Len(s) /\ IsSpace(s[i]) THEN SkipWs(s, i + 1) ELSE i

RECURSIVE SkipDigits(_, _)
SkipDigits(s, i) ==
    IF i <= Len(s) /\ IsDigit(s[i]) THEN SkipDigits(s, i + 1) ELSE i

\* the closing quote of the string literal whose content starts at i, or 0:
\* a control character ends the parse with a SyntaxError
RECURSIVE StringEnd(_, _)
StringEnd(s, i) ==
    IF i > Len(s) THEN 0
    ELSE IF s[i] = "\"" THEN i
    ELSE IF s[i] \in {"\n", "\r", "\t", "\\"} THEN 0
    ELSE StringEnd(s, i + 1)

HasAt(s, i, word) ==
    /\ i + Len(word) - 1 <= Len(s)
    /\ SubSeq(s, i, i + Len(word) - 1) = word

\* the number grammar of JSON, -?(0|[1-9][0-9]*)(\.[0-9]+)?([eE][+-]?[0-9]+)?,
\* part by part: each gives the index after the part, or 0 when it is malformed
SignEnd(s, i) == IF i <= Len(s) /\ s[i] = "-" THEN i + 1 ELSE i

IntEnd(s, i) ==
    IF i <= Len(s) /\ s[i] = "0" THEN i + 1
    ELSE IF i <= Len(s) /\ IsDigit(s[i]) THEN SkipDigits(s, i)
    ELSE 0

FracEnd(s, i) ==
    IF i = 0 THEN 0
    ELSE IF i <= Len(s) /\ s[i] = "."
         THEN (IF SkipDigits(s, i + 1) > i + 1 THEN SkipDigits(s, i + 1) ELSE 0)
         ELSE i

ExpDigits(s, i) == IF SkipDigits(s, i) > i THEN SkipDigits(s, i) ELSE 0

ExpEnd(s, i) ==
    IF i = 0 THEN 0
    ELSE IF i <= Len(s) /\ s[i] \in {"e", "E"}
         THEN (IF i + 1 <= Len(s) /\ s[i + 1] \in {"+", "-"}
               THEN ExpDigits(s, i + 2) ELSE ExpDigits(s, i + 1))
         ELSE i

\* the index after the number starting at i, or 0
NumberEnd(s, i) == ExpEnd(s, FracEnd(s, IntEnd(s, SignEnd(s, i))))

RECURSIVE ParseValue(_, _)
RECURSIVE ParseElements(_, _, _)

\* the JSON value starting at i: [ok, val, next]
ParseValue(s, i) ==
    IF i > Len(s) THEN JsonFail
    ELSE IF s[i] = "[" THEN
        LET j == SkipWs(s, i + 1) IN
        IF j <= Len(s) /\ s[j] = "]"
        THEN [ok |-> TRUE, val |-> [type |-> "array", value |-> <<>>], next |-> j + 1]
        ELSE ParseElements(s, j, <<>>)
    ELSE IF s[i] = "\"" THEN
        LET e == StringEnd(s, i + 1) IN
        IF e = 0 THEN JsonFail
        ELSE [ok |-> TRUE,
              val |-> [type |-> "string", value |-> SubSeq(s, i + 1, e - 1)],
              next |-> e + 1]
    ELSE IF HasAt(s, i, <<"t", "r", "u", "e">>) THEN
        [ok |-> TRUE, val |-> [type |-> "true", value |-> <<>>], next |-> i + 4]
    ELSE IF HasAt(s, i, <<"f", "a", "l", "s", "e">>) THEN
        [ok |-> TRUE, val |-> [type |-> "false", value |-> <<>>], next |-> i + 5]
    ELSE IF HasAt(s, i, <<"n", "u", "l", "l">>) THEN
        [ok |-> TRUE, val |-> [type |-> "null", value |-> <<>>], next |-> i + 4]
    ELSE
        LET e == NumberEnd(s, i) IN
        IF e = 0 THEN JsonFail
        ELSE [ok |-> TRUE,
              val |-> [type |-> "number", value |-> NumberText(SubSeq(s, i, e - 1))],
              next |-> e]

\* the elements of an array from i on, after "[" or ",": [ok, val, next]
ParseElements(s, i, acc) ==
    LET r == ParseValue(s, i) IN
    IF ~r.ok THEN JsonFail
    ELSE LET j == SkipWs(s, r.next) IN
         IF j > Len(s) THEN JsonFail
         ELSE IF s[j] = "]"
              THEN [ok |-> TRUE,
                    val |-> [type |-> "array", value |-> Append(acc, r.val)],
                    next |-> j + 1]
         ELSE IF s[j] = ","
              THEN ParseElements(s, SkipWs(s, j + 1), Append(acc, r.val))
         ELSE JsonFail

\* JSON.parse(s): [ok |-> TRUE, val] or, for a SyntaxError, [ok |-> FALSE]
JSONparse(s) ==
    LET r == ParseValue(s, SkipWs(s, 1)) IN
    IF r.ok /\ SkipWs(s, r.next) = Len(s) + 1
    THEN [ok |-> TRUE, val |-> r.val]
    ELSE JsonFail

EmptyArray == [type |-> "array", value |-> <<>>]

\* ------------------------------------------------------------------------
\* fetchQuestions (questionService.ts).  A response is what fetch resolves
\* or rejects with: [kind |-> "ok" | "notOk" | "rejected", text].
\* ------------------------------------------------------------------------

\* how a call ends: with a value, or with an Error of a message
NoError == [text |-> "", arg |-> <<>>]

Returned(value) == [state |-> "returned", value |-> value, error |-> NoError]
Thrown(text, arg) ==
    [state |-> "thrown", value |-> <<>>, error |-> [text |-> text, arg |-> arg]]

\* lines 21-49: the record of one line, or none for a line of < 7 fields
ParseLine(line) ==
    LET values == Split(line, "|")
        parsed == JSONparse(values[4])
    IN IF Len(values) < 7 THEN <<>>
       ELSE << [id              |-> values[1],
                context         |-> values[2],
                template        |-> values[3],
                scrambledWords  |-> IF parsed.ok THEN parsed.val ELSE EmptyArray,
                correctSentence |-> values[5],
                distractor      |-> Trim(values[6]),
                difficulty      |-> Trim(values[7])] >>

\* mutant: a line of fewer than 7 fields ends the loop (break for continue)
RECURSIVE ParseLines_BreakOnShort(_, _)
ParseLines_BreakOnShort(lines, i) ==
    IF i > Len(lines) THEN <<>>
    ELSE IF ParseLine(lines[i]) = <<>> THEN <<>>
    ELSE ParseLine(lines[i]) \o ParseLines_BreakOnShort(lines, i + 1)

\* lines 17-50: the records of the lines from the i-th on
RECURSIVE ParseLines(_, _)
ParseLines(lines, i) ==
    IF i > Len(lines) THEN <<>>
    ELSE ParseLine(lines[i]) \o ParseLines(lines, i + 1)

\* mutant: line 1 is dropped before the blank lines are filtered out
tryFetchQuestions_HeaderFirst(response) ==
    IF response.kind = "rejected" THEN Thrown("fetch rejected", <<>>)
    ELSE IF response.kind # "ok" THEN Thrown("Failed to fetch questions CSV", <<>>)
    ELSE LET lines == SelectSeq(Tail(SplitLines(response.text)),
                                LAMBDA line : Trim(line) # <<>>)
         IN Returned(ParseLines(lines, 1))

\* lines 6-52, the try block: what it returns or throws
tryFetchQuestions(response) ==
    IF response.kind = "rejected" THEN Thrown("fetch rejected", <<>>)
    ELSE IF response.kind # "ok" THEN Thrown("Failed to fetch questions CSV", <<>>)
    ELSE LET lines == SelectSeq(SplitLines(response.text),
                                LAMBDA line : Trim(line) # <<>>)
         IN Returned(ParseLines(lines, 2))

\* mutant: the catch block logs the error and throws it again
fetchQuestions_Rethrows(response) == tryFetchQuestions(response)

\* lines 4-57: how the call settles; the catch block turns every error of
\* the try block into the empty array
fetchQuestions(response) ==
    IF tryFetchQuestions(response).state = "thrown"
    THEN Returned(<<>>)
    ELSE tryFetchQuestions(response)

\* ------------------------------------------------------------------------
\* getRandomQuestions (questionService.ts)
\* ------------------------------------------------------------------------

Min(a, b) == IF a < b THEN a ELSE b
Max(a, b) == IF a > b THEN a ELSE b

\* Array.prototype.slice(0, end)
Slice0(arr, end) ==
    SubSeq(arr, 1, IF end < 0 THEN Max(Len(arr) + end, 0) ELSE Min(end, Len(arr)))

\* mutant: a[i] = a[j] without the exchange, a[j] is kept
Swap_Overwrite(a, i, j) == [a EXCEPT ![i + 1] = a[j + 1]]

\* [a[i], a[j]] = [a[j], a[i]], i and j 0-based as in the code
Swap(a, i, j) == [a EXCEPT ![i + 1] = a[j + 1], ![j + 1] = a[i + 1]]

\* the draws Math.floor(Math.random() * (i + 1)) can produce for an array of
\* n elements: one j in 0..i for every i in 1..n-1
Draws(n) == {d \in [1..(n - 1) -> 0..(n - 1)] : \A i \in 1..(n - 1) : d[i] <= i}

\* mutant: j is drawn below i only, Math.floor(Math.random() * i)
RECURSIVE ShuffleLoop_BelowOnly(_, _, _)
ShuffleLoop_BelowOnly(shuffled, i, draws) ==
    IF i > 0
    THEN ShuffleLoop_BelowOnly(Swap(shuffled, i, draws[i] % i), i - 1, draws)
    ELSE shuffled

\* lines 73-76: for (i = length - 1; i > 0; i--) swap(i, draw)
RECURSIVE ShuffleLoop(_, _, _)
ShuffleLoop(shuffled, i, draws) ==
    IF i > 0
    THEN ShuffleLoop(Swap(shuffled, i, draws[i]), i - 1, draws)
    ELSE shuffled

FisherYates(arr, draws) == ShuffleLoop(arr, Len(arr) - 1, draws)

\* line 65
FilterByDifficulty(allQuestions, difficulty) ==
    SelectSeq(allQuestions, LAMBDA q : q.difficulty = difficulty)

\* mutant: an empty repository is returned as it is, nothing is thrown
select_EmptyPoolReturned(allQuestions, count, difficulty, draws) ==
    IF Len(allQuestions) = 0
    THEN Returned(<<>>)
    ELSE LET filteredQuestions == FilterByDifficulty(allQuestions, difficulty) IN
         IF Len(filteredQuestions) = 0
         THEN Thrown("No questions available for difficulty: ", difficulty)
         ELSE Returned(Slice0(FisherYates(filteredQuestions, draws), count))

\* mutant: the test of the filtered set for emptiness is missing
select_NoEmptyCheck(allQuestions, count, difficulty, draws) ==
    IF Len(allQuestions) = 0
    THEN Thrown("No questions available. Please ensure public/questions.csv exists and is populated.", <<>>)
    ELSE Returned(Slice0(FisherYates(FilterByDifficulty(allQuestions, difficulty),
                                     draws), count))

\* lines 61-78, on the repository fetchQuestions returned
select(allQuestions, count, difficulty, draws) ==
    IF Len(allQuestions) = 0
    THEN Thrown("No questions available. Please ensure public/questions.csv exists and is populated.", <<>>)
    ELSE LET filteredQuestions == FilterByDifficulty(allQuestions, difficulty) IN
         IF Len(filteredQuestions) = 0
         THEN Thrown("No questions available for difficulty: ", difficulty)
         ELSE Returned(Slice0(FisherYates(filteredQuestions, draws), count))

\* lines 59-79, on what the awaited fetchQuestions call settled with: an
\* error of that call is thrown on
getRandomQuestions(fetched, count, difficulty, draws) ==
    IF fetched.state = "thrown" THEN fetched
    ELSE select(fetched.value, count, difficulty, draws)

\* ------------------------------------------------------------------------
\* Program constants and the question bank served to the application
\* ------------------------------------------------------------------------

TOTAL_QUESTIONS == 9
SESSION_TIME == 360

MiddleSchool == <<"M", "i", "d", "d", "l", "e", " ", "S", "c", "h", "o", "o", "l">>
HighSchool == <<"H", "i", "g", "h", " ", "S", "c", "h", "o", "o", "l">>
University == <<"U", "n", "i", "v", "e", "r", "s", "i", "t", "y">>

\* type Difficulty
Difficulties == {MiddleSchool, HighSchool, University}

\* no startQuiz call of an unmounted instance is pending
NoOrphans == [d \in Difficulties |-> 0]

\* App.tsx line 77: the id of the one application that is available
Toefl == <<"t", "o", "e", "f", "l">>

\* type View (App.tsx line 108)
Views == {"home", "apps", "blog"}

\* main.tsx and App.tsx lines 108-110, 452 and 498-524: the host is rendered,
\* its view is that of the applications and its panel shows the one ToeflApp
\* there has been
HostIdle ==
    /\ orphans = NoOrphans
    /\ hostMounted = TRUE
    /\ selectedApp = Toefl
    /\ currentView = "apps"

RECURSIVE Join(_, _)
Join(pieces, sep) ==
    IF pieces = <<>> THEN <<>>
    ELSE IF Len(pieces) = 1 THEN pieces[1]
    ELSE pieces[1] \o sep \o Join(Tail(pieces), sep)

DigitChar(n) == <<"0", "1", "2", "3", "4", "5", "6", "7", "8", "9">>[n + 1]

HeaderLine ==
    <<"i", "d", "|", "c", "|", "t", "|", "w", "|", "s", "|", "x", "|", "d">>

\* record line i of the bank: odd lines are Middle School, every fourth line
\* is University and the other even lines are High School; every third line
\* asks for "Am  I?" and the others for "I am."
BankLine(i) ==
    Join(<< <<"q", DigitChar(i)>>,
            <<"H", "i", "?">>,
            IF i % 3 = 0 THEN <<"_", "_", "_", " ", "_", "_", "_", "?">>
                         ELSE <<"_", "_", "_", " ", "_", "_", "_", ".">>,
            <<"[", "\"", "I", "\"", ",", " ", "\"", "a", "m", "\"", "]">>,
            IF i % 3 = 0 THEN <<"A", "m", " ", " ", "I", "?">>
                         ELSE <<"I", " ", "a", "m", ".">>,
            <<" ", "i", "s">>,
            (IF i % 2 = 1 THEN MiddleSchool
             ELSE IF i % 4 = 0 THEN University
             ELSE HighSchool) \o <<" ">> >>,
         <<"|">>)

\* a line of five fields only
ShortLine == <<"q", "0", "|", "H", "i", "|", "_", "_", "_", "|", "[", "]", "|", "I">>

\* record line i of public/questions.csv: a sentence with one blank, the word
\* for it and a distractor; the odd lines up to the fifth are Middle School,
\* of the others every fourth from the second is High School and the rest
\* University
QuizLine(i) ==
    Join(<< <<"t", DigitChar(i)>>,
            <<"H", "i", "?">>,
            IF i % 3 = 0 THEN <<"_", "_", "_", " ", "I", "?">>
                         ELSE <<"I", " ", "_", "_", "_", ".">>,
            IF i % 3 = 0 THEN <<"[", "\"", "A", "m", "\"", "]">>
                         ELSE <<"[", "\"", "a", "m", "\"", "]">>,
            IF i % 3 = 0 THEN <<"A", "m", " ", " ", "I", "?">>
                         ELSE <<"I", " ", "a", "m", ".">>,
            <<" ", "i", "s">>,
            (IF i <= 5 /\ i % 2 = 1 THEN MiddleSchool
             ELSE IF i % 4 = 2 THEN HighSchool
             ELSE University) \o <<" ">> >>,
         <<"|">>)

\* a line of six fields
SixFieldLine ==
    Join(<< <<"q", "6">>, <<"H", "i", "?">>, <<"_", "_", "_", ".">>,
            <<"[", "\"", "I", "\"", "]">>, <<"I", ".">>, <<"i", "s">> >>, <<"|">>)

\* public/questions.csv: header, a blank line, MaxRecords record lines with a
\* short line after the first, "\r\n" line ends
BankText ==
    Join(<<HeaderLine, <<" ">>, QuizLine(1), ShortLine>>
         \o [k \in 1..(MaxRecords - 1) |-> QuizLine(k + 1)] \o << <<>> >>,
         <<"\r", "\n">>)

\* a bank of one record only, "\n" line ends
OneLineText == Join(<<HeaderLine, QuizLine(1)>>, <<"\n">>)

\* a bank whose record lines are all short of 7 fields, "\n" line ends
MalformedText == Join(<<HeaderLine, ShortLine, SixFieldLine>>, <<"\n">>)

\* what the fetch of /questions.csv can resolve or reject with
Responses ==
    { [kind |-> "rejected", text |-> <<>>],
      [kind |-> "notOk", text |-> <<>>],
      [kind |-> "ok", text |-> <<>>],
      [kind |-> "ok", text |-> HeaderLine],
      [kind |-> "ok", text |-> MalformedText],
      [kind |-> "ok", text |-> OneLineText],
      [kind |-> "ok", text |-> BankText] }

\* how fetchQuestions settles for each of them
Fetched == [response \in Responses |-> fetchQuestions(response)]

\* the draws of a getRandomQuestions call on a response
DrawsFor(response, difficulty) ==
    Draws(Len(FilterByDifficulty(Fetched[response].value, difficulty)))

\* ------------------------------------------------------------------------
\* Timer and ToeflApp (components/Timer.tsx)
\* ------------------------------------------------------------------------

NoTimer == [mounted |-> FALSE, seconds |-> 0]

\* no ToeflApp is mounted: the panel of the host left the tree (App.tsx
\* lines 452 and 497-531) and the host may mount another, or React unmounted
\* the whole tree, the host included, after an error that nothing catches
Unmounted == "UNMOUNTED"

\* line 11: useState(initialSeconds), on mount
TimerMount(initialSeconds) == [mounted |-> TRUE, seconds |-> initialSeconds]

\* lines 164-200: the Quiz view, the only one that mounts Timer and
\* SentenceBuilder
QuizViewRendered == appState = "QUIZ"

\* what is mounted once the view of the next state is rendered: a Timer that
\* stays mounted keeps its seconds, a new one starts from SESSION_TIME
TimerAfterRender(next) ==
    IF next = "QUIZ"
    THEN (IF QuizViewRendered THEN timer ELSE TimerMount(SESSION_TIME))
    ELSE NoTimer

NoCall == [allQuestions |-> <<>>, count |-> 0, difficulty |-> Null]
NotCalled == [state |-> "none", value |-> <<>>, error |-> NoError]
NoSource == [kind |-> "none", text |-> <<>>]

\* no load has been made
LoadIdle ==
    /\ source = NoSource
    /\ sourceLines = <<>>
    /\ loaded = NotCalled

NoEvent == [name |-> "none", arg |-> <<>>, slot |-> -1]
NoQuestion == [id |-> Null]

\* the startQuiz calls pending in unmounted instances
OrphanCount ==
    orphans[MiddleSchool] + orphans[HighSchool] + orphans[University]

\* no SentenceBuilder is mounted
BuilderUnmounted ==
    /\ question = NoQuestion
    /\ parts = <<>>
    /\ placedWords = <<>>
    /\ availableWords = <<>>
    /\ effectDue = FALSE
    /\ painted = FALSE
    /\ event = NoEvent

\* Timer.tsx lines 179-183: the Quiz view is rendered for a new session and
\* mounts a SentenceBuilder for its first question; the effect of that render
\* is due
BuilderMount(first) ==
    /\ question' = first
    /\ parts' = <<>>
    /\ placedWords' = <<>>
    /\ availableWords' = <<>>
    /\ effectDue' = TRUE
    /\ painted' = TRUE
    /\ event' = [name |-> "mount", arg |-> <<>>, slot |-> -1]

Init ==
    /\ appState = "LOBBY"
    /\ questions = <<>>
    /\ currentIndex = 0
    /\ results = <<>>
    /\ selectedDifficulty = Null
    /\ timer = NoTimer
    /\ inflight = Null
    /\ alertShown = NoError
    /\ discardedLog = FALSE
    /\ HostIdle
    /\ call = NoCall
    /\ ret = NotCalled
    /\ drawn = <<>>
    /\ LoadIdle
    /\ BuilderUnmounted

\* lines 117-134: the three difficulty buttons of the Lobby view
SelectDifficulty ==
    /\ appState = "LOBBY"
    /\ \E d \in Difficulties : selectedDifficulty' = d
    /\ alertShown' = NoError
    /\ discardedLog' = FALSE
    /\ UNCHANGED hostVars
    /\ UNCHANGED <<appState, questions, currentIndex, results, timer, inflight,
                   call, ret, drawn, loadVars,
                   builderVars>>

\* mutant: the selection is asked for Middle School whatever was selected
startQuiz_AlwaysMiddleSchool ==
    IF selectedDifficulty = Null
    THEN /\ alertShown' = [text |-> "Please select a difficulty level.", arg |-> <<>>]
         /\ UNCHANGED <<appState, timer, inflight>>
    ELSE /\ appState' = "LOADING"
         /\ timer' = TimerAfterRender("LOADING")
         /\ inflight' = MiddleSchool
         /\ alertShown' = NoError

\* lines 60-66: startQuiz up to its await
startQuiz ==
    IF selectedDifficulty = Null
    THEN /\ alertShown' = [text |-> "Please select a difficulty level.", arg |-> <<>>]
         /\ UNCHANGED <<appState, timer, inflight>>
    ELSE /\ appState' = "LOADING"
         /\ timer' = TimerAfterRender("LOADING")
         /\ inflight' = selectedDifficulty
         /\ alertShown' = NoError

\* lines 137-143: the launch button, disabled while no difficulty is selected
LaunchPracticeSession ==
    /\ appState = "LOBBY"
    /\ selectedDifficulty # Null
    /\ startQuiz
    /\ discardedLog' = FALSE
    /\ UNCHANGED hostVars
    /\ UNCHANGED <<questions, currentIndex, results, selectedDifficulty, call, ret, drawn, loadVars,
                   builderVars>>

\* lines 274-279: the restart button of the Result view
StartNewSession ==
    /\ appState = "RESULT"
    /\ startQuiz
    /\ discardedLog' = FALSE
    /\ UNCHANGED hostVars
    /\ UNCHANGED <<questions, currentIndex, results, selectedDifficulty, call, ret, drawn, loadVars,
                   builderVars>>

\* mutant: setResults([]) is forgotten, the log of the previous session stays
StartQuizResolved_KeepsLog ==
    /\ inflight # Null
    /\ \E response \in Responses :
         \E draws \in DrawsFor(response, inflight) :
           LET r == getRandomQuestions(Fetched[response], TOTAL_QUESTIONS,
                                       inflight, draws) IN
           /\ r.state = "returned"
           /\ questions' = r.value
           /\ currentIndex' = 0
           /\ UNCHANGED results
           /\ IF r.value = <<>>
              THEN \* Timer.tsx l.180: questions[0].id of no question
                   \* throws while the Quiz view renders
                   /\ appState' = Unmounted
                   /\ timer' = NoTimer
                   /\ hostMounted' = FALSE
                   /\ UNCHANGED builderVars
              ELSE /\ appState' = "QUIZ"
                   /\ timer' = TimerAfterRender("QUIZ")
                   /\ BuilderMount(r.value[1])
                   /\ UNCHANGED hostMounted
           /\ drawn' = draws
           /\ source' = response
           /\ loaded' = Fetched[response]
    /\ inflight' = Null
    /\ alertShown' = NoError
    /\ discardedLog' = (results # <<>>)
    /\ UNCHANGED <<orphans, selectedApp, currentView>>
    /\ UNCHANGED <<selectedDifficulty, call, ret, sourceLines>>

\* lines 68-72: the awaited getRandomQuestions call returns, in the mounted
\* ToeflApp
StartQuizResolved ==
    /\ inflight # Null
    /\ \E response \in Responses :
         \E draws \in DrawsFor(response, inflight) :
           LET r == getRandomQuestions(Fetched[response], TOTAL_QUESTIONS,
                                       inflight, draws) IN
           /\ r.state = "returned"
           /\ questions' = r.value
           /\ currentIndex' = 0
           /\ results' = <<>>
           /\ IF r.value = <<>>
              THEN \* Timer.tsx l.180: questions[0].id of no question
                   \* throws while the Quiz view renders
                   /\ appState' = Unmounted
                   /\ timer' = NoTimer
                   /\ hostMounted' = FALSE
                   /\ UNCHANGED builderVars
              ELSE /\ appState' = "QUIZ"
                   /\ timer' = TimerAfterRender("QUIZ")
                   /\ BuilderMount(r.value[1])
                   /\ UNCHANGED hostMounted
           /\ drawn' = draws
           /\ source' = response
           /\ loaded' = Fetched[response]
    /\ inflight' = Null
    /\ alertShown' = NoError
    /\ discardedLog' = (results # <<>>)
    /\ UNCHANGED <<orphans, selectedApp, currentView>>
    /\ UNCHANGED <<selectedDifficulty, call, ret, sourceLines>>

\* mutant: the session is reset before the selection is known to succeed
StartQuizRejected_ClearsSession ==
    /\ inflight # Null
    /\ \E response \in Responses :
         \E draws \in DrawsFor(response, inflight) :
           LET r == getRandomQuestions(Fetched[response], TOTAL_QUESTIONS,
                                       inflight, draws) IN
           /\ r.state = "thrown"
           /\ alertShown' = r.error
           /\ appState' = "LOBBY"
           /\ timer' = TimerAfterRender("LOBBY")
           /\ drawn' = draws
           /\ source' = response
           /\ loaded' = Fetched[response]
    /\ currentIndex' = 0
    /\ results' = <<>>
    /\ inflight' = Null
    /\ discardedLog' = FALSE
    /\ UNCHANGED hostVars
    /\ UNCHANGED <<questions, selectedDifficulty, call, ret,
                   sourceLines, builderVars>>

\* lines 73-76: the awaited getRandomQuestions call throws, in the mounted
\* ToeflApp
StartQuizRejected ==
    /\ inflight # Null
    /\ \E response \in Responses :
         \E draws \in DrawsFor(response, inflight) :
           LET r == getRandomQuestions(Fetched[response], TOTAL_QUESTIONS,
                                       inflight, draws) IN
           /\ r.state = "thrown"
           /\ alertShown' = r.error
           /\ appState' = "LOBBY"
           /\ timer' = TimerAfterRender("LOBBY")
           /\ drawn' = draws
           /\ source' = response
           /\ loaded' = Fetched[response]
    /\ inflight' = Null
    /\ discardedLog' = FALSE
    /\ UNCHANGED hostVars
    /\ UNCHANGED <<questions, currentIndex, results, selectedDifficulty, call, ret,
                   sourceLines, builderVars>>

\* the SentenceBuilder, if one is mounted, goes with the Quiz view
BuilderAfterQuiz ==
    IF question = NoQuestion
    THEN UNCHANGED builderVars
    ELSE /\ question' = NoQuestion
         /\ parts' = <<>>
         /\ placedWords' = <<>>
         /\ availableWords' = <<>>
         /\ effectDue' = FALSE
         /\ painted' = FALSE
         /\ event' = [name |-> "timeUp", arg |-> <<>>, slot |-> -1]

\* Timer.tsx lines 12-22: the Timer was rendered with seconds === 0 and its
\* effect, which calls onTimeUp, has not run yet.  React runs a pending
\* effect before it renders again: a click whose handler sets state runs it
\* in its own task, and the render of that click shows what onTimeUp set.
TimeUpDue ==
    QuizViewRendered /\ timer.mounted /\ timer.seconds = 0

\* the SentenceBuilder goes with the Quiz view, in the task of a click
BuilderGone ==
    /\ question' = NoQuestion
    /\ parts' = <<>>
    /\ placedWords' = <<>>
    /\ availableWords' = <<>>
    /\ effectDue' = FALSE
    /\ painted' = FALSE

\* mutant: time-up returns to the lobby instead of showing the result
handleTimeUp_ToLobby ==
    /\ appState' = "LOBBY"
    /\ timer' = TimerAfterRender("LOBBY")

\* lines 79-81
handleTimeUp ==
    /\ appState' = "RESULT"
    /\ timer' = TimerAfterRender("RESULT")

\* mutant: before the last question a time-up moves on to the next question
\* and appends nothing
TimeUp_SkipsQuestion ==
    /\ QuizViewRendered
    /\ timer.mounted
    /\ timer.seconds = 0
    /\ IF currentIndex < Len(questions) - 1
       THEN /\ currentIndex' = currentIndex + 1
            /\ UNCHANGED <<appState, timer, results, builderVars>>
       ELSE /\ handleTimeUp
            /\ BuilderAfterQuiz
            /\ UNCHANGED <<currentIndex, results>>
    /\ alertShown' = NoError
    /\ discardedLog' = FALSE
    /\ UNCHANGED hostVars
    /\ UNCHANGED <<questions, selectedDifficulty, inflight,
                   call, ret, drawn, loadVars>>

\* mutant: time-up records the question in progress as answered with nothing
TimeUp_RecordsUnanswered ==
    /\ QuizViewRendered
    /\ timer.mounted
    /\ timer.seconds = 0
    /\ handleTimeUp
    /\ BuilderAfterQuiz
    /\ results' = Append(results,
                         [questionId    |-> questions[currentIndex + 1].id,
                          isCorrect     |-> FALSE,
                          userAnswer    |-> <<>>,
                          correctAnswer |-> questions[currentIndex + 1].correctSentence])
    /\ alertShown' = NoError
    /\ discardedLog' = FALSE
    /\ UNCHANGED hostVars
    /\ UNCHANGED <<questions, currentIndex, selectedDifficulty, inflight,
                   call, ret, drawn, loadVars>>

\* lines 19-20: the effect of the render with seconds === 0, run in a task of
\* its own
TimeUp ==
    /\ QuizViewRendered
    /\ timer.mounted
    /\ timer.seconds = 0
    /\ handleTimeUp
    /\ BuilderAfterQuiz
    /\ alertShown' = NoError
    /\ discardedLog' = FALSE
    /\ UNCHANGED hostVars
    /\ UNCHANGED <<questions, currentIndex, results, selectedDifficulty, inflight,
                   call, ret, drawn, loadVars>>

\* mutant: the comparison is sensitive to case
isCorrect_CaseSensitive(userAnswer, correctSentence) ==
    Trim(CollapseSpaces(SelectSeq(userAnswer,
                                  LAMBDA c : c \notin {".", "?", "!", ","})))
    = Trim(CollapseSpaces(SelectSeq(correctSentence,
                                    LAMBDA c : c \notin {".", "?", "!", ","})))

\* line 88
isCorrect(userAnswer, correctSentence) == clean(userAnswer) = clean(correctSentence)

\* mutant: the answer is compared with the reference as typed, not normalised
AnswerRecord_RawCompare(currentQ, userAnswer) ==
    [questionId    |-> currentQ.id,
     isCorrect     |-> userAnswer = currentQ.correctSentence,
     userAnswer    |-> userAnswer,
     correctAnswer |-> currentQ.correctSentence]

\* lines 90-95: the record appended for the current question
AnswerRecord(currentQ, userAnswer) ==
    [questionId    |-> currentQ.id,
     isCorrect     |-> isCorrect(userAnswer, currentQ.correctSentence),
     userAnswer    |-> userAnswer,
     correctAnswer |-> currentQ.correctSentence]

\* mutant: the Timer is keyed by the question and starts again with each one
handleQuestionComplete_RemountsTimer(userAnswer) ==
    LET currentQ == questions[currentIndex + 1] IN
    /\ results' = Append(results, AnswerRecord(currentQ, userAnswer))
    /\ IF currentIndex < Len(questions) - 1
       THEN /\ currentIndex' = currentIndex + 1
            /\ timer' = TimerMount(SESSION_TIME)
            /\ UNCHANGED appState
       ELSE /\ appState' = "RESULT"
            /\ timer' = TimerAfterRender("RESULT")
            /\ UNCHANGED currentIndex

\* mutant: the record is made for the first question of the session, not for
\* the current one
handleQuestionComplete_FirstQuestion(userAnswer) ==
    LET currentQ == questions[1] IN
    /\ results' = Append(results, AnswerRecord(currentQ, userAnswer))
    /\ IF currentIndex < Len(questions) - 1
       THEN /\ currentIndex' = currentIndex + 1
            /\ UNCHANGED <<appState, timer>>
       ELSE /\ appState' = "RESULT"
            /\ timer' = TimerAfterRender("RESULT")
            /\ UNCHANGED currentIndex

\* mutant: the bound of the last-question test is off by one, the session ends
\* one question early
handleQuestionComplete_EndsEarly(userAnswer) ==
    LET currentQ == questions[currentIndex + 1] IN
    /\ results' = Append(results, AnswerRecord(currentQ, userAnswer))
    /\ IF currentIndex < Len(questions) - 2
       THEN /\ currentIndex' = currentIndex + 1
            /\ UNCHANGED <<appState, timer>>
       ELSE /\ appState' = "RESULT"
            /\ timer' = TimerAfterRender("RESULT")
            /\ UNCHANGED currentIndex

\* lines 83-102
handleQuestionComplete(userAnswer) ==
    LET currentQ == questions[currentIndex + 1] IN
    /\ results' = Append(results, AnswerRecord(currentQ, userAnswer))
    /\ IF currentIndex < Len(questions) - 1
       THEN /\ currentIndex' = currentIndex + 1
            /\ UNCHANGED <<appState, timer>>
       ELSE /\ appState' = "RESULT"
            /\ timer' = TimerAfterRender("RESULT")
            /\ UNCHANGED currentIndex

\* lines 83-102 and then lines 79-81: onComplete called while the time-up is
\* due.  The handler appends the record and, with more questions to come,
\* advances the index; before React renders, the effect of the Timer calls
\* onTimeUp, and the render shows the Result view.
handleQuestionCompleteThenTimeUp(userAnswer) ==
    LET currentQ == questions[currentIndex + 1] IN
    /\ results' = Append(results, AnswerRecord(currentQ, userAnswer))
    /\ currentIndex' = IF currentIndex < Len(questions) - 1
                       THEN currentIndex + 1 ELSE currentIndex
    /\ handleTimeUp

\* mutant: the quit button is also there while the selection is awaited
Quit_WhileLoading ==
    /\ appState \in {"RESULT", "LOADING"}
    /\ appState' = "LOBBY"
    /\ timer' = TimerAfterRender("LOBBY")
    /\ alertShown' = NoError
    /\ discardedLog' = FALSE
    /\ UNCHANGED hostVars
    /\ UNCHANGED <<questions, currentIndex, results, selectedDifficulty, inflight,
                   call, ret, drawn, loadVars,
                   builderVars>>

\* lines 280-285: the quit button of the Result view
Quit ==
    /\ appState = "RESULT"
    /\ appState' = "LOBBY"
    /\ timer' = TimerAfterRender("LOBBY")
    /\ alertShown' = NoError
    /\ discardedLog' = FALSE
    /\ UNCHANGED hostVars
    /\ UNCHANGED <<questions, currentIndex, results, selectedDifficulty, inflight,
                   call, ret, drawn, loadVars,
                   builderVars>>

\* Timer.tsx lines 67-76: the alerts a startQuiz call for difficulty d can end
\* with, NoError when the selection returns
SettledAlerts ==
    [d \in Difficulties |->
        UNION { { (LET r == getRandomQuestions(Fetched[response], TOTAL_QUESTIONS,
                                               d, draws)
                   IN IF r.state = "thrown" THEN r.error ELSE NoError) :
                    draws \in DrawsFor(response, d) } :
                response \in Responses }]

\* Timer.tsx lines 67-76 in an instance of ToeflApp that was unmounted: the
\* awaited getRandomQuestions call settles; the state setters of an unmounted
\* component set nothing, the alert of line 75 is raised all the same
StartQuizSettledUnmounted ==
    /\ \E d \in Difficulties :
         /\ orphans[d] > 0
         /\ orphans' = [orphans EXCEPT ![d] = @ - 1]
         /\ alertShown' \in SettledAlerts[d]
    /\ discardedLog' = FALSE
    /\ UNCHANGED <<hostMounted, selectedApp, currentView>>
    /\ UNCHANGED <<appState, questions, currentIndex, results, selectedDifficulty,
                   timer, inflight, call, ret, drawn, loadVars, builderVars>>

\* mutant: every record of the log counts for the score
score_CountsAll == Len(results)

\* lines 203-204: what the Result view computes
score == Cardinality({k \in 1..Len(results) : results[k].isCorrect})

\* mutant: the percentage is taken of the questions of the session
percentage_OfSession == (200 * score + Len(questions)) \div (2 * Len(questions))

\* Math.round(x) is floor(x + 1/2): round(score / T * 100) is
\* floor((200 * score + T) / (2 * T))
percentage == (200 * score + TOTAL_QUESTIONS) \div (2 * TOTAL_QUESTIONS)

\* ------------------------------------------------------------------------
\* Selector runs: getRandomQuestions applied to every repository of at most
\* MaxPool records, every difficulty and every count up to MaxCount
\* ------------------------------------------------------------------------

SampleQuestion(id, difficulty) ==
    [id              |-> id,
     context         |-> <<"H", "i", "?">>,
     template        |-> <<"_", "_", "_", ".">>,
     scrambledWords  |-> [type |-> "array",
                          value |-> << [type |-> "string", value |-> <<"I">>] >>],
     correctSentence |-> <<"I", ".">>,
     distractor      |-> <<"a", "m">>,
     difficulty      |-> difficulty]

\* three Middle School records and a High School one; a repository may hold
\* the same record more than once
SampleQuestions ==
    { SampleQuestion(<<"a">>, MiddleSchool),
      SampleQuestion(<<"b">>, MiddleSchool),
      SampleQuestion(<<"c">>, HighSchool),
      SampleQuestion(<<"d">>, MiddleSchool) }

Repositories ==
    UNION { [1..n -> SampleQuestions] : n \in 0..MaxPool }

InitSelect ==
    /\ appState = "LOBBY"
    /\ questions = <<>>
    /\ currentIndex = 0
    /\ results = <<>>
    /\ selectedDifficulty = Null
    /\ timer = NoTimer
    /\ inflight = Null
    /\ alertShown = NoError
    /\ discardedLog = FALSE
    /\ HostIdle
    /\ call \in [allQuestions : Repositories, count : 0..MaxCount,
                 difficulty : Difficulties]
    /\ ret = NotCalled
    /\ drawn = <<>>
    /\ LoadIdle
    /\ BuilderUnmounted

\* mutant: the filtered records are shuffled in the array that was passed,
\* not in a copy of it
Select_ShufflesInPlace ==
    /\ ret.state = "none"
    /\ \E draws \in Draws(Len(FilterByDifficulty(call.allQuestions, call.difficulty))) :
         /\ ret' = select(call.allQuestions, call.count, call.difficulty, draws)
         /\ drawn' = draws
         /\ call' = [call EXCEPT !.allQuestions =
                        FisherYates(FilterByDifficulty(call.allQuestions,
                                                       call.difficulty), draws)]
    /\ UNCHANGED <<appState, questions, currentIndex, results, selectedDifficulty,
                   timer, inflight, alertShown, discardedLog, hostVars, loadVars,
                   builderVars>>

\* one call of the selector, for every sequence of draws of its shuffle: the
\* array passed is only read (filter, line 65, and the spread of line 72 make
\* new arrays, the swaps of line 75 write to the copy)
Select ==
    /\ ret.state = "none"
    /\ \E draws \in Draws(Len(FilterByDifficulty(call.allQuestions, call.difficulty))) :
         /\ ret' = select(call.allQuestions, call.count, call.difficulty, draws)
         /\ drawn' = draws
    /\ UNCHANGED <<appState, questions, currentIndex, results, selectedDifficulty,
                   timer, inflight, alertShown, discardedLog, hostVars, call, loadVars,
                   builderVars>>

NextSelect == Select

SpecSelect == InitSelect /\ [][NextSelect]_vars

\* ------------------------------------------------------------------------
\* Load runs: fetchQuestions on every file of at most MaxLines lines taken
\* from LoadLines, with either line end, served with or without success
\* ------------------------------------------------------------------------

\* seven fields, the fourth is not JSON
BadJsonLine ==
    Join(<< <<"q", "7">>, <<"H", "i", "?">>, <<"_", "_", "_", " ", "_", "_", "_", ".">>,
            <<"[", "I", ",", " ", "a", "m", "]">>, <<"I", " ", "a", "m", ".">>,
            <<" ", "i", "s", " ">>, MiddleSchool >>, <<"|">>)

\* seven fields, the fourth is JSON but no array
NotArrayLine ==
    Join(<< <<"q", "8">>, <<"H", "i", "?">>, <<"_", "_", "_", " ", "_", "_", "_", ".">>,
            <<"4", "2">>, <<"I", " ", "a", "m", ".">>, <<"i", "s">>,
            MiddleSchool >>, <<"|">>)

\* eight fields
EightFieldLine ==
    Join(<< <<"q", "9">>, <<"H", "i", "?">>, <<"_", "_", "_", ".">>,
            <<"[", "\"", "I", "\"", "]">>, <<"I", ".">>, <<"i", "s">>,
            HighSchool, <<"n", "o", "t", "e">> >>, <<"|">>)

LoadLines ==
    { HeaderLine, <<>>, <<" ", "\t">>, BankLine(1), BankLine(2), ShortLine,
      SixFieldLine, BadJsonLine, NotArrayLine, EightFieldLine }

LineEnds == { <<"\n">>, <<"\r", "\n">> }

InitLoad ==
    /\ appState = "LOBBY"
    /\ questions = <<>>
    /\ currentIndex = 0
    /\ results = <<>>
    /\ selectedDifficulty = Null
    /\ timer = NoTimer
    /\ inflight = Null
    /\ alertShown = NoError
    /\ discardedLog = FALSE
    /\ HostIdle
    /\ call = NoCall
    /\ ret = NotCalled
    /\ drawn = <<>>
    /\ sourceLines \in UNION { [1..n -> LoadLines] : n \in 0..MaxLines }
    /\ \E eol \in LineEnds :
         \/ source = [kind |-> "ok", text |-> Join(sourceLines, eol)]
         \/ source = [kind |-> "notOk", text |-> Join(sourceLines, eol)]
         \/ /\ sourceLines = <<>>
            /\ source = [kind |-> "rejected", text |-> <<>>]
    /\ loaded = NotCalled
    /\ BuilderUnmounted

\* one call of fetchQuestions
Load ==
    /\ loaded.state = "none"
    /\ loaded' = fetchQuestions(source)
    /\ UNCHANGED <<appState, questions, currentIndex, results, selectedDifficulty,
                   timer, inflight, alertShown, discardedLog, hostVars, call, ret, drawn,
                   source, sourceLines, builderVars>>

NextLoad == Load

SpecLoad == InitLoad /\ [][NextLoad]_vars

\* ------------------------------------------------------------------------
\* SentenceBuilder (unnamed/part_000, lines 33-181)
\* ------------------------------------------------------------------------

\* Array.prototype.join and String() of an element of an array: null is the
\* empty string, an array its elements joined by ","
RECURSIVE ElementText(_)
ElementText(v) ==
    IF v.type = "null" THEN <<>>
    ELSE IF v.type = "true" THEN <<"t", "r", "u", "e">>
    ELSE IF v.type = "false" THEN <<"f", "a", "l", "s", "e">>
    ELSE IF v.type = "array"
    THEN Join([k \in 1..Len(v.value) |-> ElementText(v.value[k])], <<",">>)
    ELSE v.value

\* a word of the SentenceBuilder: an element of the parsed array as the
\* component holds it.  A string is its characters.  A value that is no
\* string starts with the name of its type, which is no character: a number
\* is <<"number">> and the text of the number, true, false and null are
\* <<"true">>, <<"false">> and <<"null">>, and an array is <<"array", k>>
\* and the text String() makes of it, k being the place the array has in
\* scrambledWords: two arrays are the same word (===) only if they are the
\* same object.
WordOf(v, k) ==
    IF v.type = "string" THEN v.value
    ELSE IF v.type = "number" THEN <<"number">> \o v.value
    ELSE IF v.type = "array" THEN <<"array", ToString(k)>> \o ElementText(v)
    ELSE <<v.type>>

\* [...question.scrambledWords]: the elements of an array; a string is
\* spread into its characters and any other value is not iterable
SpreadOf(v) ==
    IF v.type = "array"
    THEN [ok |-> TRUE,
          items |-> [k \in 1..Len(v.value) |-> WordOf(v.value[k], k)]]
    ELSE IF v.type = "string"
    THEN [ok |-> TRUE, items |-> [k \in 1..Len(v.value) |-> <<v.value[k]>>]]
    ELSE [ok |-> FALSE, items |-> <<>>]

\* the orders array.sort(() => Math.random() - 0.5) can leave an array in:
\* with a comparator that is not consistent the order is implementation-defined
SortOutcomes(arr) ==
    {[k \in 1..Len(arr) |-> arr[p[k]]] :
        p \in {q \in [1..Len(arr) -> 1..Len(arr)] :
                  \A i, j \in 1..Len(arr) : q[i] = q[j] => i = j}}

\* line 48, the calls of the comparator () => Math.random() - 0.5 that one
\* sort makes: draws[k] is TRUE when the k-th call returns a negative
\* number.  The sort is the one of the engine the application is built for
\* (V8): for an array this short, the run the array starts with is found and
\* reversed when it descends, and the other elements are inserted into it
\* by binary search.
Negative(draws, k) == k <= Len(draws) /\ draws[k]

\* the length of the run found at the start of n elements; idx is the
\* 1-based place of the element compared with the one before it, by call
\* idx - 1
RECURSIVE RunLength(_, _, _, _)
RunLength(draws, n, idx, isDescending) ==
    IF idx > n THEN n
    ELSE IF Negative(draws, idx - 1) = isDescending
         THEN RunLength(draws, n, idx + 1, isDescending)
         ELSE idx - 1

\* the first runLength elements in reverse order
ReverseRange(a, runLength) ==
    [i \in 1..Len(a) |-> IF i <= runLength THEN a[runLength + 1 - i] ELSE a[i]]

\* the place (0-based) of the pivot among the elements left..right-1, and
\* the next call of the comparator
RECURSIVE BinarySearch(_, _, _, _)
BinarySearch(draws, k, left, right) ==
    IF left < right
    THEN LET mid == left + ((right - left) \div 2) IN
         IF Negative(draws, k)
         THEN BinarySearch(draws, k + 1, left, mid)
         ELSE BinarySearch(draws, k + 1, mid + 1, right)
    ELSE [left |-> left, k |-> k]

\* the element at start (0-based) moved to left, those between shifted up
InsertAt(a, start, left) ==
    [i \in 1..Len(a) |->
        IF i = left + 1 THEN a[start + 1]
        ELSE IF i > left + 1 /\ i <= start + 1 THEN a[i - 1]
        ELSE a[i]]

RECURSIVE BinaryInsertionSort(_, _, _, _)
BinaryInsertionSort(a, draws, k, start) ==
    IF start >= Len(a) THEN [value |-> a, calls |-> k - 1]
    ELSE LET found == BinarySearch(draws, k, 0, start) IN
         BinaryInsertionSort(InsertAt(a, start, found.left), draws, found.k, start + 1)

\* the array sorted with these comparator results, and the calls made
SortWith(arr, draws) ==
    IF Len(arr) < 2 THEN [value |-> arr, calls |-> 0]
    ELSE LET isDescending == Negative(draws, 1)
             runLength == RunLength(draws, Len(arr), 3, isDescending)
             calls == IF runLength = Len(arr) THEN Len(arr) - 1 ELSE runLength
         IN  BinaryInsertionSort(IF isDescending THEN ReverseRange(arr, runLength) ELSE arr,
                                 draws, calls + 1, runLength)

\* the sequences of comparator results one sort of n elements can consume:
\* all of the sequence is used and nothing more
SortDraws(n) ==
    {draws \in UNION {[1..len -> BOOLEAN] : len \in 0..((n * (n - 1)) \div 2 + 1)} :
        SortWith([i \in 1..n |-> i], draws).calls = Len(draws)}

\* the length of the run of "_" that s starts with
RECURSIVE MarkerRun(_)
MarkerRun(s) ==
    IF s # <<>> /\ Head(s) = "_" THEN 1 + MarkerRun(Tail(s)) ELSE 0

\* line 53, template.split(/(_{3,})/g): literal text and runs of three "_" or
\* more in turn, from a literal to a literal; lit is the literal read so far
RECURSIVE SplitMarkers(_, _)
SplitMarkers(s, lit) ==
    IF s = <<>> THEN <<lit>>
    ELSE IF MarkerRun(s) >= 3
         THEN <<lit, SubSeq(s, 1, MarkerRun(s))>>
              \o SplitMarkers(SubSeq(s, MarkerRun(s) + 1, Len(s)), <<>>)
    ELSE IF MarkerRun(s) > 0
         THEN SplitMarkers(SubSeq(s, MarkerRun(s) + 1, Len(s)),
                           lit \o SubSeq(s, 1, MarkerRun(s)))
    ELSE SplitMarkers(Tail(s), Append(lit, Head(s)))

\* line 55, /_{3,}/.test(token)
TestMarker(token) ==
    \E i \in 1..(Len(token) - 2) :
        token[i] = "_" /\ token[i + 1] = "_" /\ token[i + 2] = "_"

\* mutant: the blanks are the runs of "_" of any length from two on
ParseTemplate_RunsOfTwo(template) ==
    LET tokens == SplitMarkers(template, <<>>) IN
    [k \in 1..Len(tokens) |->
        IF \E i \in 1..(Len(tokens[k]) - 1) :
              tokens[k][i] = "_" /\ tokens[k][i + 1] = "_"
        THEN Null ELSE tokens[k]]

\* lines 53-57: a blank is Null (null in the code), a literal is its text
ParseTemplate(template) ==
    LET tokens == SplitMarkers(template, <<>>) IN
    [k \in 1..Len(tokens) |-> IF TestMarker(tokens[k]) THEN Null ELSE tokens[k]]

\* a word as a condition (!word, if (word), word || ''): the empty string is
\* falsy, and so are false, null and the number 0; any other string, number
\* or array is truthy
Truthy(word) ==
    word \notin {<<>>, <<"false">>, <<"null">>, <<"number", "0">>}

\* String(word), as Array.prototype.join makes it of an element
TextOf(word) ==
    IF word = <<>> THEN <<>>
    ELSE IF Head(word) = "number" THEN Tail(word)
    ELSE IF Head(word) = "array" THEN SubSeq(word, 3, Len(word))
    ELSE IF Head(word) = "true" THEN <<"t", "r", "u", "e">>
    ELSE IF Head(word) = "false" THEN <<"f", "a", "l", "s", "e">>
    ELSE IF Head(word) = "null" THEN <<"n", "u", "l", "l">>
    ELSE word

\* placedWords[i] as a condition: undefined is falsy, as is a falsy word
Placed(i) == i \in DOMAIN placedWords /\ Truthy(placedWords[i])

\* the 0-based indices of parts that are blanks
BlankIndices == {i \in 0..(Len(parts) - 1) : parts[i + 1] = Null}

\* lines 62-68: the first blank without a word, or -1
firstEmptyBlankIndex ==
    IF \E i \in BlankIndices : ~Placed(i)
    THEN CHOOSE i \in BlankIndices :
            ~Placed(i) /\ \A j \in BlankIndices : j < i => Placed(j)
    ELSE -1

\* availableWords.indexOf(word), 0-based, -1 when absent
IndexOf(arr, word) ==
    IF \E k \in 1..Len(arr) : arr[k] = word
    THEN (CHOOSE k \in 1..Len(arr) :
            arr[k] = word /\ \A j \in 1..(k - 1) : arr[j] # word) - 1
    ELSE -1

\* arr.splice(idx, 1) on a copy of arr
SpliceOne(arr, idx) ==
    SubSeq(arr, 1, idx) \o SubSeq(arr, idx + 2, Len(arr))

\* { ...placedWords, [i]: word }
WithKey(obj, i, word) ==
    [k \in DOMAIN obj \cup {i} |-> IF k = i THEN word ELSE obj[k]]

\* a copy of placedWords after delete copy[i]
WithoutKey(obj, i) == [k \in DOMAIN obj \ {i} |-> obj[k]]

\* line 91
isComplete ==
    Cardinality(BlankIndices) = Cardinality(DOMAIN placedWords)

\* mutant: the parts are joined with a space between them
finalSentence_JoinedBySpace ==
    LET texts == [k \in 1..Len(parts) |->
                    IF parts[k] = Null
                    THEN (IF Placed(k - 1) THEN TextOf(placedWords[k - 1]) ELSE <<>>)
                    ELSE parts[k]]
    IN Trim(CollapseSpaces(Join(texts, <<" ">>)))

\* lines 94-97: the sentence handed to onComplete
finalSentence ==
    LET texts == [k \in 1..Len(parts) |->
                    IF parts[k] = Null
                    THEN (IF Placed(k - 1) THEN TextOf(placedWords[k - 1]) ELSE <<>>)
                    ELSE parts[k]]
    IN Trim(CollapseSpaces(Join(texts, <<>>)))

\* mutant: a word that is not in the pool is not placed
handleWordClick_PoolWordsOnly(word) ==
    IF firstEmptyBlankIndex # -1 /\ IndexOf(availableWords, word) # -1
    THEN /\ placedWords' = WithKey(placedWords, firstEmptyBlankIndex, word)
         /\ availableWords' = SpliceOne(availableWords,
                                        IndexOf(availableWords, word))
    ELSE UNCHANGED <<placedWords, availableWords>>

\* mutant: the test of firstEmptyBlankIndex against -1 is missing
handleWordClick_NoGuard(word) ==
    /\ placedWords' = WithKey(placedWords, firstEmptyBlankIndex, word)
    /\ IF IndexOf(availableWords, word) # -1
       THEN availableWords' = SpliceOne(availableWords,
                                       IndexOf(availableWords, word))
       ELSE UNCHANGED availableWords

\* mutant: every occurrence of the word leaves the pool
handleWordClick_RemovesAll(word) ==
    IF firstEmptyBlankIndex # -1
    THEN /\ placedWords' = WithKey(placedWords, firstEmptyBlankIndex, word)
         /\ availableWords' = SelectSeq(availableWords, LAMBDA w : w # word)
    ELSE UNCHANGED <<placedWords, availableWords>>

\* lines 61-79
handleWordClick(word) ==
    IF firstEmptyBlankIndex # -1
    THEN /\ placedWords' = WithKey(placedWords, firstEmptyBlankIndex, word)
         /\ IF IndexOf(availableWords, word) # -1
            THEN availableWords' = SpliceOne(availableWords,
                                            IndexOf(availableWords, word))
            ELSE UNCHANGED availableWords
    ELSE UNCHANGED <<placedWords, availableWords>>

\* mutant: the word is put back although the blank held none
handleBlankClick_AlwaysReturns(blankIndex) ==
    /\ placedWords' = WithoutKey(placedWords, blankIndex)
    /\ availableWords' =
         Append(availableWords,
                IF blankIndex \in DOMAIN placedWords
                THEN placedWords[blankIndex] ELSE <<>>)

\* lines 81-89
handleBlankClick(blankIndex) ==
    IF Placed(blankIndex)
    THEN /\ placedWords' = WithoutKey(placedWords, blankIndex)
         /\ availableWords' = Append(availableWords, placedWords[blankIndex])
    ELSE UNCHANGED <<placedWords, availableWords>>

\* the handlers of the rendered SentenceBuilder can be reached: it is
\* mounted, and the buttons of its last render are on screen.  The effect of
\* the first render of the Quiz view, made when the awaited selection
\* settles, is scheduled for later; the effect of a render made for a click
\* runs before the task of the click ends, and what it sets is rendered in a
\* later task.  Until then the handlers read the parts and the words of the
\* render on screen: nothing for a new instance, those of the question
\* before for an instance that stayed.
BuilderReady ==
    QuizViewRendered /\ question # NoQuestion

\* lines 46-59 and 101-180: the render of what the effect set
EffectRendered ==
    /\ availableWords' \in
         SortOutcomes(Append(SpreadOf(question.scrambledWords).items,
                             question.distractor))
    /\ placedWords' = <<>>
    /\ parts' = ParseTemplate(question.template)
    /\ effectDue' = FALSE
    /\ painted' = FALSE
    /\ event' = [name |-> "effect", arg |-> <<>>, slot |-> -1]
    /\ UNCHANGED question

\* lines 46-59: the effect of a render with a new question, and the render
\* of what it set.  The effect of the first render of the Quiz view runs
\* here: the spread of line 48 throws a TypeError for a value that is not
\* iterable; no error boundary is above the component, so React unmounts the
\* whole tree, the Timer and its interval included.  The effect of a render
\* made for a click has run in the task of that click, and what it set is
\* rendered here.
RunEffect ==
    /\ QuizViewRendered
    /\ question # NoQuestion
    /\ effectDue
    /\ IF SpreadOf(question.scrambledWords).ok
       THEN /\ availableWords' \in
                 SortOutcomes(Append(SpreadOf(question.scrambledWords).items,
                                     question.distractor))
            /\ placedWords' = <<>>
            /\ parts' = ParseTemplate(question.template)
            /\ effectDue' = FALSE
            /\ painted' = FALSE
            /\ event' = [name |-> "effect", arg |-> <<>>, slot |-> -1]
            /\ UNCHANGED question
            /\ UNCHANGED <<appState, timer, hostMounted>>
       ELSE /\ question' = NoQuestion
            /\ parts' = <<>>
            /\ placedWords' = <<>>
            /\ availableWords' = <<>>
            /\ effectDue' = FALSE
            /\ painted' = FALSE
            /\ event' = [name |-> "error", arg |-> <<>>, slot |-> -1]
            /\ appState' = Unmounted
            /\ timer' = NoTimer
            /\ hostMounted' = FALSE
    /\ alertShown' = NoError
    /\ discardedLog' = FALSE
    /\ UNCHANGED <<orphans, selectedApp, currentView>>
    /\ UNCHANGED <<questions, currentIndex, results, selectedDifficulty,
                   inflight, call, ret, drawn, loadVars>>

\* lines 46-59 and 101-180: the render after a click whose handler set
\* placedWords and availableWords from the render on screen, while what the
\* effect set was not rendered yet.  The setters of the effect were called
\* first and those of the handler last: the parts are those the effect set,
\* the words placed and the pool are those the handler set.
RenderedWithClick ==
    /\ parts' = ParseTemplate(question.template)
    /\ effectDue' = FALSE
    /\ painted' = FALSE

\* Timer.tsx lines 15-18: one interval tick, setSeconds(prev => prev - 1), and the
\* render of what it set.  The interval is made by the effect of the Timer
\* (lines 14-17), which runs with the effect of the SentenceBuilder mounted
\* in the same render: there is none while the effect of the first render
\* has not run.  The render of a tick also shows what an effect of the
\* SentenceBuilder set and no render has shown yet.
Tick ==
    /\ QuizViewRendered
    /\ timer.mounted
    /\ timer.seconds > 0
    /\ ~(effectDue /\ painted)
    /\ timer' = [timer EXCEPT !.seconds = @ - 1]
    /\ IF effectDue THEN EffectRendered ELSE UNCHANGED builderVars
    /\ alertShown' = NoError
    /\ discardedLog' = FALSE
    /\ UNCHANGED hostVars
    /\ UNCHANGED <<appState, questions, currentIndex, results, selectedDifficulty,
                   inflight, call, ret, drawn, loadVars>>

\* lines 151-159: a button of the word bank.  A click that places a word
\* makes React render: with the time-up due (Timer.tsx lines 19-20 and
\* 79-81) that render is the Result view, and the SentenceBuilder is gone
\* with the word.  A click that places none renders nothing.
WordClick ==
    /\ BuilderReady
    /\ \E k \in 1..Len(availableWords) :
         /\ event' = [name |-> "wordClick", arg |-> availableWords[k], slot |-> -1]
         /\ IF TimeUpDue /\ firstEmptyBlankIndex # -1
            THEN /\ handleTimeUp
                 /\ BuilderGone
            ELSE /\ handleWordClick(availableWords[k])
                 /\ IF effectDue /\ firstEmptyBlankIndex # -1
                    THEN RenderedWithClick
                    ELSE UNCHANGED <<parts, effectDue, painted>>
                 /\ UNCHANGED <<appState, timer, question>>
    /\ alertShown' = NoError
    /\ discardedLog' = FALSE
    /\ UNCHANGED hostVars
    /\ UNCHANGED <<questions, currentIndex, results, selectedDifficulty,
                   inflight, call, ret, drawn, loadVars>>

\* lines 120-136: the button of a blank.  A click that takes a word back
\* makes React render: with the time-up due (Timer.tsx lines 19-20 and
\* 79-81) that render is the Result view, and the SentenceBuilder is gone.
\* A click on a blank that holds no word renders nothing.
BlankClick ==
    /\ BuilderReady
    /\ \E blankIndex \in BlankIndices :
         /\ event' = [name |-> "blankClick", arg |-> <<>>, slot |-> blankIndex]
         /\ IF TimeUpDue /\ Placed(blankIndex)
            THEN /\ handleTimeUp
                 /\ BuilderGone
            ELSE /\ handleBlankClick(blankIndex)
                 /\ IF effectDue /\ Placed(blankIndex)
                    THEN RenderedWithClick
                    ELSE UNCHANGED <<parts, effectDue, painted>>
                 /\ UNCHANGED <<appState, timer, question>>
    /\ alertShown' = NoError
    /\ discardedLog' = FALSE
    /\ UNCHANGED hostVars
    /\ UNCHANGED <<questions, currentIndex, results, selectedDifficulty,
                   inflight, call, ret, drawn, loadVars>>

\* Timer.tsx lines 179-183: the SentenceBuilder rendered after an answer.  A
\* question with another id is another key and mounts a new instance, with
\* no parts and no words.  With the same id the instance stays: it shows
\* what its effect set, if that was not rendered yet, and else the parts
\* and the words it showed.  The effect of this render (part_000 lines
\* 46-59) runs before the task of the click ends, and what it sets is yet
\* to be rendered.
BuilderAfterAnswer ==
    IF currentIndex < Len(questions) - 1
    THEN /\ question' = questions[currentIndex + 2]
         /\ effectDue' = TRUE
         /\ painted' = FALSE
         /\ IF questions[currentIndex + 2].id = question.id
            THEN IF effectDue
                 THEN /\ parts' = ParseTemplate(question.template)
                      /\ placedWords' = <<>>
                      /\ availableWords' \in
                           SortOutcomes(Append(SpreadOf(question.scrambledWords).items,
                                               question.distractor))
                 ELSE UNCHANGED <<parts, placedWords, availableWords>>
            ELSE /\ parts' = <<>>
                 /\ placedWords' = <<>>
                 /\ availableWords' = <<>>
    ELSE /\ question' = NoQuestion
         /\ parts' = <<>>
         /\ placedWords' = <<>>
         /\ availableWords' = <<>>
         /\ effectDue' = FALSE
         /\ painted' = FALSE

\* the spread of line 48 throws in the task of a click on the submit button:
\* in the effect of the first render, which React runs before it renders
\* again, or in the effect of the render of the next question
EffectThrows ==
    \/ effectDue /\ painted /\ ~SpreadOf(question.scrambledWords).ok
    \/ /\ currentIndex < Len(questions) - 1
       /\ ~SpreadOf(questions[currentIndex + 2].scrambledWords).ok

\* lines 93-99 and 166-177: the submit button, disabled while not isComplete,
\* with the render of the next question or of the Result view and the
\* effects React runs in the task of the click.  The handler reads the parts
\* and the words of the render on screen.  An effect that throws unmounts
\* the whole tree.  With the time-up due the effect of the Timer runs after
\* the handler and before the render (Timer.tsx lines 19-20 and 79-81): the
\* record is appended, the index advanced, and the render is the Result
\* view, so that no next question is rendered.
SubmitSentence ==
    /\ BuilderReady
    /\ isComplete
    /\ IF TimeUpDue /\ ~(effectDue /\ painted /\ ~SpreadOf(question.scrambledWords).ok)
       THEN /\ handleQuestionCompleteThenTimeUp(finalSentence)
            /\ BuilderGone
            /\ event' = [name |-> "submit", arg |-> finalSentence, slot |-> -1]
            /\ UNCHANGED hostMounted
       ELSE IF EffectThrows
       THEN /\ question' = NoQuestion
            /\ parts' = <<>>
            /\ placedWords' = <<>>
            /\ availableWords' = <<>>
            /\ effectDue' = FALSE
            /\ painted' = FALSE
            /\ event' = [name |-> "error", arg |-> <<>>, slot |-> -1]
            /\ appState' = Unmounted
            /\ timer' = NoTimer
            /\ hostMounted' = FALSE
            /\ UNCHANGED <<currentIndex, results>>
       ELSE /\ handleQuestionComplete(finalSentence)
            /\ BuilderAfterAnswer
            /\ event' = [name |-> "submit", arg |-> finalSentence, slot |-> -1]
            /\ UNCHANGED hostMounted
    /\ alertShown' = NoError
    /\ discardedLog' = FALSE
    /\ UNCHANGED <<orphans, selectedApp, currentView>>
    /\ UNCHANGED <<questions, selectedDifficulty, inflight, call, ret, drawn,
                   loadVars>>

\* ------------------------------------------------------------------------
\* The application: ToeflApp from its mount in the host to its unmount, with
\* the Timer and the SentenceBuilder of its Quiz view
\* ------------------------------------------------------------------------

\* lines 52-58: the state of a ToeflApp the host has just mounted
MountApp ==
    /\ appState' = "LOBBY"
    /\ questions' = <<>>
    /\ currentIndex' = 0
    /\ results' = <<>>
    /\ selectedDifficulty' = Null
    /\ timer' = NoTimer
    /\ inflight' = Null
    /\ drawn' = <<>>
    /\ source' = NoSource
    /\ loaded' = NotCalled
    /\ event' = NoEvent
    /\ UNCHANGED <<question, parts, placedWords, availableWords, effectDue, painted>>

\* ToeflApp is unmounted, in whatever view it is, with its Timer and its
\* SentenceBuilder.  A startQuiz call that awaits its selection stays
\* pending, in an instance that is mounted no more.  React runs the effect
\* of the first render of the SentenceBuilder, if it has not run yet, before
\* it renders the host again: a spread that throws (part_000 line 48)
\* unmounts the whole tree, the host included.
UnmountApp ==
    /\ appState' = Unmounted
    /\ inflight' = Null
    /\ orphans' = IF inflight = Null THEN orphans
                  ELSE [orphans EXCEPT ![inflight] = @ + 1]
    /\ timer' = NoTimer
    /\ IF question = NoQuestion
       THEN UNCHANGED <<builderVars, hostMounted>>
       ELSE /\ BuilderGone
            /\ IF effectDue /\ painted /\ ~SpreadOf(question.scrambledWords).ok
               THEN /\ event' = [name |-> "error", arg |-> <<>>, slot |-> -1]
                    /\ hostMounted' = FALSE
               ELSE /\ event' = [name |-> "close", arg |-> <<>>, slot |-> -1]
                    /\ UNCHANGED hostMounted
    /\ UNCHANGED <<questions, currentIndex, results, selectedDifficulty,
                   drawn, source, loaded>>

\* the render of the host after a click that set its state, with ToeflApp
\* staying mounted.  React runs the effects that are pending before it
\* renders: the effect of the first render of the SentenceBuilder, whose
\* spread may throw (part_000 line 48) and unmount the whole tree, and the
\* effect of the Timer rendered with seconds === 0, which calls onTimeUp
\* (Timer.tsx lines 19-20 and 79-81).  The render shows what the effects
\* set.
HostRendered ==
    IF QuizViewRendered /\ effectDue /\ painted /\ ~SpreadOf(question.scrambledWords).ok
    THEN /\ appState' = Unmounted
         /\ timer' = NoTimer
         /\ BuilderGone
         /\ event' = [name |-> "error", arg |-> <<>>, slot |-> -1]
         /\ hostMounted' = FALSE
    ELSE IF TimeUpDue
    THEN /\ handleTimeUp
         /\ BuilderAfterQuiz
         /\ UNCHANGED hostMounted
    ELSE IF QuizViewRendered /\ effectDue
    THEN /\ EffectRendered
         /\ UNCHANGED <<appState, timer, hostMounted>>
    ELSE UNCHANGED <<appState, timer, builderVars, hostMounted>>

\* App.tsx line 515: the close button of the panel sets selectedApp to null.
\* The panel is a child of AnimatePresence (lines 497-531): it stays
\* mounted, ToeflApp with it, while its exit animation (line 502) runs, and
\* all of ToeflApp goes on as before: the interval ticks, an awaited
\* selection settles, the buttons can be clicked.
CloseApp ==
    /\ appState # Unmounted
    /\ selectedApp # Null
    /\ selectedApp' = Null
    /\ HostRendered
    /\ alertShown' = NoError
    /\ discardedLog' = FALSE
    /\ UNCHANGED <<orphans, currentView>>
    /\ UNCHANGED <<questions, currentIndex, results, selectedDifficulty, inflight,
                   call, ret, drawn, loadVars>>

\* App.tsx lines 497-531: the exit animation of the panel has ended and
\* AnimatePresence takes the panel out of the tree
ExitComplete ==
    /\ appState # Unmounted
    /\ selectedApp = Null
    /\ inflight # Null => OrphanCount < MaxOrphans
    /\ UnmountApp
    /\ alertShown' = NoError
    /\ discardedLog' = FALSE
    /\ UNCHANGED <<selectedApp, currentView>>
    /\ UNCHANGED <<call, ret, sourceLines>>

\* App.tsx line 469, the card of the application: setSelectedApp(app.id), for
\* the one application that is available.  With no panel in the tree the
\* host mounts a new ToeflApp.  A panel whose exit animation still runs is
\* shown again, and the ToeflApp in it is the instance it was, with its
\* state.  The host is there as long as no error unmounted the tree.
OpenApp ==
    /\ hostMounted
    /\ currentView = "apps"
    /\ selectedApp = Null
    /\ selectedApp' = Toefl
    /\ IF appState = Unmounted
       THEN /\ MountApp
            /\ UNCHANGED hostMounted
       ELSE /\ HostRendered
            /\ UNCHANGED <<questions, currentIndex, results, selectedDifficulty,
                           inflight, drawn, source, loaded>>
    /\ alertShown' = NoError
    /\ discardedLog' = FALSE
    /\ UNCHANGED <<orphans, currentView>>
    /\ UNCHANGED <<call, ret, sourceLines>>

\* App.tsx lines 207-243 and 368, the buttons of the navigation:
\* setCurrentView.  The section of the applications is rendered in the view
\* "apps" only (line 452): leaving that view unmounts the panel and ToeflApp
\* at once, and coming back to it with an application selected mounts a new
\* ToeflApp.
ShowView ==
    /\ hostMounted
    /\ \E view \in Views \ {currentView} :
         /\ currentView' = view
         /\ IF currentView = "apps" /\ appState # Unmounted
            THEN /\ inflight # Null => OrphanCount < MaxOrphans
                 /\ UnmountApp
            ELSE IF view = "apps" /\ selectedApp = Toefl
            THEN /\ MountApp
                 /\ UNCHANGED <<orphans, hostMounted>>
            ELSE UNCHANGED <<appState, questions, currentIndex, results,
                             selectedDifficulty, timer, inflight, drawn, source,
                             loaded, builderVars, orphans, hostMounted>>
    /\ alertShown' = NoError
    /\ discardedLog' = FALSE
    /\ UNCHANGED selectedApp
    /\ UNCHANGED <<call, ret, sourceLines>>

Next ==
    \/ SelectDifficulty
    \/ LaunchPracticeSession
    \/ StartNewSession
    \/ StartQuizResolved
    \/ StartQuizRejected
    \/ Tick
    \/ TimeUp
    \/ RunEffect
    \/ WordClick
    \/ BlankClick
    \/ SubmitSentence
    \/ Quit
    \/ CloseApp
    \/ ExitComplete
    \/ OpenApp
    \/ ShowView
    \/ StartQuizSettledUnmounted

Spec == Init /\ [][Next]_vars

\* ------------------------------------------------------------------------
\* Assembler runs: a session of at most MaxSession questions of the
\* assembler bank is on, and the user builds and submits its sentences
\* ------------------------------------------------------------------------

\* words that occur twice, and a distractor equal to one of them
RepeatLine ==
    Join(<< <<"b", "2">>, <<"H", "i", "?">>,
            <<"_", "_", "_", " ", "_", "_", "_", " ", "_", "_", "_", "!">>,
            <<"[", "\"", "a", "\"", ",", "\"", "b", "\"", ",", "\"", "a", "\"", "]">>,
            <<"a", " ", "b", " ", "a", "!">>, <<"b">>, MiddleSchool >>, <<"|">>)

\* literal text around the blanks, a run of two "_" that is no blank, and an
\* empty distractor
LiteralLine ==
    Join(<< <<"b", "3">>, <<"H", "i", "?">>,
            <<"S", "o", " ", "_", "_", "_", ",", " ", "_", "_", " ", "_", "_", "_", "_">>,
            <<"[", "\"", "x", "\"", "]">>,
            <<"S", "o", " ", "x", ",", " ", "_", "_", " ", "x">>, <<>>,
            MiddleSchool >>, <<"|">>)

\* no blank at all
NoBlankLine ==
    Join(<< <<"b", "4">>, <<"H", "i", "?">>, <<"H", "i", ".">>, <<"[", "]">>,
            <<"H", "i", ".">>, <<"z">>, MiddleSchool >>, <<"|">>)

\* more blanks than words, two of them with one character in between
CrowdedLine ==
    Join(<< <<"b", "5">>, <<"H", "i", "?">>,
            <<"_", "_", "_", "_", "x", "_", "_", "_", " ", "_", "_", "_">>,
            <<"[", "\"", "a", "\"", "]">>, <<"a", "x", "b">>, <<"b">>,
            MiddleSchool >>, <<"|">>)

\* white space before, between and after the blanks
SpacedLine ==
    Join(<< <<"b", "6">>, <<"H", "i", "?">>,
            <<" ", "_", "_", "_", " ", "\t", " ", "_", "_", "_", " ", " ">>,
            <<"[", "\"", "I", "\"", "]">>, <<"I", " ", "a", "m">>, <<"a", "m">>,
            MiddleSchool >>, <<"|">>)

AssemblerBankText ==
    Join(<<HeaderLine, BankLine(1), RepeatLine, LiteralLine, NoBlankLine,
           CrowdedLine, SpacedLine>>, <<"\n">>)

AssemblerBank == fetchQuestions([kind |-> "ok", text |-> AssemblerBankText]).value

Sessions ==
    UNION { [1..n -> {AssemblerBank[k] : k \in 1..Len(AssemblerBank)}] :
                n \in 1..MaxSession }

\* the Quiz view was just rendered for a new session
InitBuilder ==
    /\ appState = "QUIZ"
    /\ questions \in Sessions
    /\ currentIndex = 0
    /\ results = <<>>
    /\ selectedDifficulty = MiddleSchool
    /\ timer = TimerMount(SESSION_TIME)
    /\ inflight = Null
    /\ alertShown = NoError
    /\ discardedLog = FALSE
    /\ HostIdle
    /\ call = NoCall
    /\ ret = NotCalled
    /\ drawn = <<>>
    /\ LoadIdle
    /\ question = questions[1]
    /\ parts = <<>>
    /\ placedWords = <<>>
    /\ availableWords = <<>>
    /\ effectDue = TRUE
    /\ painted = TRUE
    /\ event = [name |-> "mount", arg |-> <<>>, slot |-> -1]

NextBuilder ==
    \/ RunEffect
    \/ WordClick
    \/ BlankClick
    \/ SubmitSentence

SpecBuilder == InitBuilder /\ [][NextBuilder]_vars

\* ------------------------------------------------------------------------
\* Quiz runs: a session of one or two questions is on with its timer, and
\* the user builds sentences, submits them or lets the time pass
\* ------------------------------------------------------------------------

\* a question as usual, one with more blanks than words, and one whose
\* scrambled-words field is a number
QuizBankText ==
    Join(<<HeaderLine, BankLine(1), CrowdedLine, NotArrayLine>>, <<"\n">>)

QuizBank == fetchQuestions([kind |-> "ok", text |-> QuizBankText]).value

QuizSessions ==
    UNION { [1..n -> {QuizBank[k] : k \in 1..Len(QuizBank)}] : n \in 1..2 }

\* the Quiz view was just rendered for a new session
InitQuiz ==
    /\ appState = "QUIZ"
    /\ questions \in QuizSessions
    /\ currentIndex = 0
    /\ results = <<>>
    /\ selectedDifficulty = MiddleSchool
    /\ timer = TimerMount(SESSION_TIME)
    /\ inflight = Null
    /\ alertShown = NoError
    /\ discardedLog = FALSE
    /\ HostIdle
    /\ call = NoCall
    /\ ret = NotCalled
    /\ drawn = <<>>
    /\ LoadIdle
    /\ question = questions[1]
    /\ parts = <<>>
    /\ placedWords = <<>>
    /\ availableWords = <<>>
    /\ effectDue = TRUE
    /\ painted = TRUE
    /\ event = [name |-> "mount", arg |-> <<>>, slot |-> -1]

NextQuiz ==
    \/ RunEffect
    \/ WordClick
    \/ BlankClick
    \/ SubmitSentence
    \/ Tick
    \/ TimeUp

\* the interval of the mounted Timer fires every second, and the effects of
\* a render (that of the SentenceBuilder, that of the Timer with
\* seconds === 0) run after that render
SpecQuiz ==
    InitQuiz /\ [][NextQuiz]_vars
    /\ WF_vars(Tick) /\ WF_vars(TimeUp) /\ WF_vars(RunEffect)

\* ------------------------------------------------------------------------
\* Caller runs: the assembler of a session of one question, with
\* handleWordClick also called with words that no button of the word bank
\* need hold
\* ------------------------------------------------------------------------

CallerWords == { <<"z">>, <<"a">> }

\* lines 61-79: handleWordClick called with any word.  The words held grow
\* with a word that is not in the pool, to MaxForeign more than the question
\* brought.
PlaceWordCall ==
    /\ BuilderReady
    /\ \E word \in CallerWords :
         /\ IndexOf(availableWords, word) = -1
            => Len(availableWords) + Cardinality(DOMAIN placedWords)
               < Len(SpreadOf(question.scrambledWords).items) + 1 + MaxForeign
         /\ IF effectDue /\ firstEmptyBlankIndex # -1
               /\ IndexOf(availableWords, word) = -1
            THEN \* the handler sets placedWords only, the pool is the one
                 \* the effect set
                 /\ placedWords' = WithKey(placedWords, firstEmptyBlankIndex, word)
                 /\ availableWords' \in
                      SortOutcomes(Append(SpreadOf(question.scrambledWords).items,
                                          question.distractor))
            ELSE handleWordClick(word)
         /\ event' = [name |-> "placeWord", arg |-> word, slot |-> -1]
    /\ IF effectDue /\ firstEmptyBlankIndex # -1
       THEN RenderedWithClick
       ELSE UNCHANGED <<parts, effectDue, painted>>
    /\ alertShown' = NoError
    /\ discardedLog' = FALSE
    /\ UNCHANGED hostVars
    /\ UNCHANGED <<appState, questions, currentIndex, results, selectedDifficulty,
                   timer, inflight, call, ret, drawn, loadVars,
                   question>>

InitCaller == InitBuilder /\ Len(questions) = 1

NextCaller ==
    \/ RunEffect
    \/ WordClick
    \/ BlankClick
    \/ PlaceWordCall

SpecCaller == InitCaller /\ [][NextCaller]_vars

\* ------------------------------------------------------------------------
\* Scoring runs: the one question of a session is answered with every
\* sentence of at most MaxText characters
\* ------------------------------------------------------------------------

\* the characters of the submitted sentences: letters in both cases, the four
\* punctuation marks of the normaliser, white space
ScoreChars == {"a", "A", "b", ".", "?", "!", ",", " ", "\t"}

Texts == UNION { [1..n -> ScoreChars] : n \in 0..MaxText }

\* the reference sentences of the questions of the scoring runs
ReferenceSentences ==
    { <<>>,
      <<"a">>,
      <<"a", "b">>,
      <<"a", " ", "b">>,
      <<"b", " ", "a">>,
      <<"A", " ", "b", "?">>,
      <<"a", ",", " ", "b", ".">>,
      <<" ", "a", " ", "\t", "b", " ">>,
      <<"!">>,
      <<"a", " ", "a", " ", "b">> }

ScoreQuestion(correctSentence) ==
    [id              |-> <<"s", "1">>,
     context         |-> <<"H", "i", "?">>,
     template        |-> <<"_", "_", "_", " ", "_", "_", "_">>,
     scrambledWords  |-> [type |-> "array",
                          value |-> << [type |-> "string", value |-> <<"a">>] >>],
     correctSentence |-> correctSentence,
     distractor      |-> <<"b">>,
     difficulty      |-> MiddleSchool]

\* the Quiz view of a session of one question
InitScore ==
    /\ appState = "QUIZ"
    /\ \E correctSentence \in ReferenceSentences :
         questions = <<ScoreQuestion(correctSentence)>>
    /\ currentIndex = 0
    /\ results = <<>>
    /\ selectedDifficulty = MiddleSchool
    /\ timer = TimerMount(SESSION_TIME)
    /\ inflight = Null
    /\ alertShown = NoError
    /\ discardedLog = FALSE
    /\ HostIdle
    /\ call = NoCall
    /\ ret = NotCalled
    /\ drawn = <<>>
    /\ LoadIdle
    /\ question = questions[1]
    /\ parts = <<>>
    /\ placedWords = <<>>
    /\ availableWords = <<>>
    /\ effectDue = TRUE
    /\ painted = TRUE
    /\ event = [name |-> "mount", arg |-> <<>>, slot |-> -1]

\* lines 179-183: onComplete is called with a sentence
ScoreAnswer ==
    /\ QuizViewRendered
    /\ \E userAnswer \in Texts :
         /\ handleQuestionComplete(userAnswer)
         /\ BuilderAfterAnswer
         /\ event' = [name |-> "submit", arg |-> userAnswer, slot |-> -1]
    /\ alertShown' = NoError
    /\ discardedLog' = FALSE
    /\ UNCHANGED hostVars
    /\ UNCHANGED <<questions, selectedDifficulty, inflight, call, ret, drawn, loadVars>>

NextScore == ScoreAnswer

SpecScore == InitScore /\ [][NextScore]_vars

\* ------------------------------------------------------------------------
\* Full-session runs: a session of TOTAL_QUESTIONS questions, or of one
\* fewer, is on and its last seconds are running; the user builds and
\* submits the sentences until the session or the time is over
\* ------------------------------------------------------------------------

\* the seconds left when these runs start
LastSeconds == 1

\* record line i of a bank of Middle School questions only
FullLine(i) ==
    Join(<< <<"r", DigitChar(i)>>,
            <<"H", "i", "?">>,
            IF i % 3 = 0 THEN <<"_", "_", "_", " ", "I", "?">>
                         ELSE <<"I", " ", "_", "_", "_", ".">>,
            IF i % 3 = 0 THEN <<"[", "\"", "A", "m", "\"", "]">>
                         ELSE <<"[", "\"", "a", "m", "\"", "]">>,
            IF i % 3 = 0 THEN <<"A", "m", " ", " ", "I", "?">>
                         ELSE <<"I", " ", "a", "m", ".">>,
            <<"i", "s">>,
            MiddleSchool >>,
         <<"|">>)

\* the bank of the first n of these lines
FullBank(n) ==
    fetchQuestions([kind |-> "ok",
                    text |-> Join(<<HeaderLine>> \o [k \in 1..n |-> FullLine(k)],
                                  <<"\n">>)]).value

\* the Quiz view of the session getRandomQuestions returned for a bank of
\* TOTAL_QUESTIONS records or of one fewer, here in the order of the bank:
\* the effect of the first render has run, no word is placed, and the Timer
\* has ticked down to LastSeconds
InitFull ==
    /\ appState = "QUIZ"
    /\ questions \in {FullBank(TOTAL_QUESTIONS - 1), FullBank(TOTAL_QUESTIONS)}
    /\ currentIndex = 0
    /\ results = <<>>
    /\ selectedDifficulty = MiddleSchool
    /\ timer = [mounted |-> TRUE, seconds |-> LastSeconds]
    /\ inflight = Null
    /\ alertShown = NoError
    /\ discardedLog = FALSE
    /\ HostIdle
    /\ call = NoCall
    /\ ret = NotCalled
    /\ drawn = <<>>
    /\ LoadIdle
    /\ question = questions[1]
    /\ parts = ParseTemplate(question.template)
    /\ placedWords = <<>>
    /\ availableWords \in SortOutcomes(Append(SpreadOf(question.scrambledWords).items,
                                             question.distractor))
    /\ effectDue = FALSE
    /\ painted = FALSE
    /\ event = [name |-> "effect", arg |-> <<>>, slot |-> -1]

NextFull ==
    \/ RunEffect
    \/ WordClick
    \/ BlankClick
    \/ SubmitSentence
    \/ Tick
    \/ TimeUp

SpecFull == InitFull /\ [][NextFull]_vars

\* ------------------------------------------------------------------------
\* Start runs: sessions are started, ended and started again on a bank that
\* has more Middle School records than a session takes, fewer High School
\* records and no University record.  The learner submits in the renders
\* that let them submit without a word placed, or lets the time pass.
\* ------------------------------------------------------------------------

\* the record lines of the large bank
LargeLines == 13

\* the values tried for the draws of one shuffle
MaxDraw == 2

\* record line i of the large bank: every fourth is a High School record,
\* the others are Middle School records
LargeLine(i) ==
    Join(<< <<"s", DigitChar(i \div 10), DigitChar(i % 10)>>,
            <<"H", "i", "?">>,
            IF i % 3 = 0 THEN <<"_", "_", "_", " ", "I", "?">>
                         ELSE <<"I", " ", "_", "_", "_", ".">>,
            IF i % 3 = 0 THEN <<"[", "\"", "A", "m", "\"", "]">>
                         ELSE <<"[", "\"", "a", "m", "\"", "]">>,
            IF i % 3 = 0 THEN <<"A", "m", " ", " ", "I", "?">>
                         ELSE <<"I", " ", "a", "m", ".">>,
            <<"i", "s">>,
            IF i % 4 = 0 THEN HighSchool ELSE MiddleSchool >>,
         <<"|">>)

\* questions.csv served with the large bank
LargeResponse ==
    [kind |-> "ok",
     text |-> Join(<<HeaderLine>> \o [k \in 1..LargeLines |-> LargeLine(k)],
                   <<"\n">>)]

\* how fetchQuestions settles for it
FetchedLarge == fetchQuestions(LargeResponse)

\* the draws tried for a shuffle of n elements: for every value c up to
\* MaxDraw, the draws that are c wherever Math.floor(Math.random() * (i + 1))
\* can be c, and i elsewhere
SampleDraws(n) ==
    {[i \in 1..(n - 1) |-> Min(c, i)] : c \in 0..MaxDraw}

\* lines 68-72: the awaited getRandomQuestions call returns, on the large
\* bank
StartQuizResolvedLarge ==
    /\ inflight # Null
    /\ \E draws \in SampleDraws(Len(FilterByDifficulty(FetchedLarge.value, inflight))) :
           LET r == getRandomQuestions(FetchedLarge, TOTAL_QUESTIONS,
                                       inflight, draws) IN
           /\ r.state = "returned"
           /\ questions' = r.value
           /\ currentIndex' = 0
           /\ results' = <<>>
           /\ IF r.value = <<>>
              THEN \* Timer.tsx l.180: questions[0].id of no question
                   \* throws while the Quiz view renders
                   /\ appState' = Unmounted
                   /\ timer' = NoTimer
                   /\ hostMounted' = FALSE
                   /\ UNCHANGED builderVars
              ELSE /\ appState' = "QUIZ"
                   /\ timer' = TimerAfterRender("QUIZ")
                   /\ BuilderMount(r.value[1])
                   /\ UNCHANGED hostMounted
           /\ drawn' = draws
           /\ source' = LargeResponse
           /\ loaded' = FetchedLarge
    /\ inflight' = Null
    /\ alertShown' = NoError
    /\ discardedLog' = (results # <<>>)
    /\ UNCHANGED <<orphans, selectedApp, currentView>>
    /\ UNCHANGED <<selectedDifficulty, call, ret, sourceLines>>

\* lines 73-76: the awaited getRandomQuestions call throws, on the large bank
StartQuizRejectedLarge ==
    /\ inflight # Null
    /\ \E draws \in SampleDraws(Len(FilterByDifficulty(FetchedLarge.value, inflight))) :
           LET r == getRandomQuestions(FetchedLarge, TOTAL_QUESTIONS,
                                       inflight, draws) IN
           /\ r.state = "thrown"
           /\ alertShown' = r.error
           /\ appState' = "LOBBY"
           /\ timer' = TimerAfterRender("LOBBY")
           /\ drawn' = draws
           /\ source' = LargeResponse
           /\ loaded' = FetchedLarge
    /\ inflight' = Null
    /\ discardedLog' = FALSE
    /\ UNCHANGED hostVars
    /\ UNCHANGED <<questions, currentIndex, results, selectedDifficulty, call, ret,
                   sourceLines, builderVars>>

NextStart ==
    \/ SelectDifficulty
    \/ LaunchPracticeSession
    \/ StartNewSession
    \/ StartQuizResolvedLarge
    \/ StartQuizRejectedLarge
    \/ Tick
    \/ TimeUp
    \/ RunEffect
    \/ SubmitSentence
    \/ Quit

SpecStart == Init /\ [][NextStart]_vars

\* ------------------------------------------------------------------------
\* Properties of the session state machine (checked under Spec; C5, C7 and
\* C28, whose cases need a session of three questions or more, under SpecFull)
\* ------------------------------------------------------------------------

AppStates == {"LOBBY", "LOADING", "QUIZ", "RESULT"}

\* the changes of appState the transition table allows, each with its trigger
AllowedChange ==
    \/ appState' = appState
    \/ /\ appState = "LOBBY" /\ appState' = "LOADING"
       /\ selectedDifficulty # Null
       /\ inflight' = selectedDifficulty
    \/ /\ appState = "LOADING" /\ appState' = "QUIZ"
       /\ questions' # <<>>
    \/ /\ appState = "LOADING" /\ appState' = "LOBBY"
       /\ alertShown' # NoError
    \/ /\ appState = "QUIZ" /\ appState' = "RESULT"
       /\ \/ /\ currentIndex = Len(questions) - 1
             /\ Len(results') = Len(results) + 1
          \/ /\ timer.seconds = 0
             /\ \/ results' = results
                \/ Len(results') = Len(results) + 1
    \/ /\ appState = "RESULT" /\ appState' \in {"LOADING", "LOBBY"}

C2_FreshSession ==
    [][appState = "LOADING" /\ appState' = "QUIZ"
        => /\ currentIndex' = 0
           /\ results' = <<>>
           /\ timer' = [mounted |-> TRUE, seconds |-> 360]]_vars

\* Quiz was just entered over the log of an earlier session
C2_Witness ==
    /\ discardedLog
    /\ appState = "QUIZ"
    /\ currentIndex = 0
    /\ results = <<>>
    /\ timer.seconds = 360

\* C3: a failed selection leads from Loading to Lobby with the error shown,
\* and from the start attempt to the failure the question list, the index and
\* the log stay what they were.
C3_FailedStartKeepsSession ==
    [][(appState = "LOADING" \/ appState' = "LOADING") /\ appState' # "QUIZ"
        => /\ UNCHANGED <<questions, currentIndex, results>>
           /\ (appState = "LOADING" /\ appState' \notin {"LOADING", Unmounted})
                => (appState' = "LOBBY" /\ alertShown' # NoError)]_vars

\* a start over an earlier session failed for want of a record of the chosen
\* difficulty: the lobby shows the error and the earlier session is intact
C3_Witness ==
    /\ appState = "LOBBY"
    /\ alertShown.text = "No questions available for difficulty: "
    /\ alertShown.arg = University
    /\ results # <<>>
    /\ currentIndex > 0
    /\ questions # <<>>

\* the words of a sentence: its maximal runs of characters other than white
\* space, in order
FirstSpace(t) ==
    CHOOSE i \in 1..(Len(t) + 1) :
        /\ i = Len(t) + 1 \/ IsSpace(t[i])
        /\ \A j \in 1..(i - 1) : ~IsSpace(t[j])

RECURSIVE WordsOf(_)
WordsOf(s) ==
    IF TrimStart(s) = <<>> THEN <<>>
    ELSE <<SubSeq(TrimStart(s), 1, FirstSpace(TrimStart(s)) - 1)>>
         \o WordsOf(SubSeq(TrimStart(s), FirstSpace(TrimStart(s)), Len(TrimStart(s))))

\* the scorer of the specification: two sentences agree when, punctuation
\* . ? ! , and case set aside, they are made of the same words in the same order
SameSentence(a, b) ==
    WordsOf(ToLowerCase(SelectSeq(a, LAMBDA c : c \notin {".", "?", "!", ","})))
    = WordsOf(ToLowerCase(SelectSeq(b, LAMBDA c : c \notin {".", "?", "!", ","})))

\* this step appends one record, for the current question and the sentence
\* the assembler submitted
AppendsForCurrent ==
    /\ event'.name = "submit"
    /\ results' = Append(results,
            [questionId    |-> questions[currentIndex + 1].id,
             isCorrect     |-> SameSentence(event'.arg,
                                            questions[currentIndex + 1].correctSentence),
             userAnswer    |-> event'.arg,
             correctAnswer |-> questions[currentIndex + 1].correctSentence])

\* C4: in Quiz, completing the current question appends exactly one record,
\* whose questionId and correctAnswer are the current question's, whose
\* userAnswer is the one submitted and whose isCorrect is the scorer's verdict;
\* the records already in the log stay as they are, in place, for the rest of
\* the session.
C4_AppendOnly ==
    [][/\ (appState = "QUIZ" /\ (results' # results \/ currentIndex' # currentIndex))
            => AppendsForCurrent
       /\ (appState = "QUIZ" /\ appState' = "RESULT" /\ timer.seconds > 0)
            => AppendsForCurrent
       /\ (appState \in {"QUIZ", "RESULT"} /\ appState' \in {"QUIZ", "RESULT"})
            => /\ Len(results') >= Len(results)
               /\ SubSeq(results', 1, Len(results)) = results]_vars

\* the log holds an answer that is correct only once normalised, and a wrong one
C4_Witness ==
    /\ appState \in {"QUIZ", "RESULT"}
    /\ \E i, j \in 1..Len(results) :
        /\ results[i].isCorrect
        /\ results[i].userAnswer # results[i].correctAnswer
        /\ ~results[j].isCorrect
        /\ results[j].questionId = questions[j].id

\* C5 as the specification states it: an answer at index i of n questions
\* keeps Quiz with index i + 1 when i < n - 1, and leads to Result with the
\* index left at n - 1 when i = n - 1.
C5_AdvanceOrFinish ==
    [][(appState = "QUIZ" /\ Len(results') = Len(results) + 1)
        => IF currentIndex < Len(questions) - 1
           THEN appState' = "QUIZ" /\ currentIndex' = currentIndex + 1
           ELSE appState' = "RESULT" /\ currentIndex' = currentIndex]_vars

\* C5: an answer at index i of n questions moves the index to i + 1 when
\* i < n - 1 and keeps Quiz, unless the timer is at zero with its time-up
\* still due: then the time-up is handled in the task of the answer and the
\* machine is in Result, with index i + 1.  An answer at index n - 1 leads
\* to Result with the index left at n - 1.
C5_AdvanceOrFinishUnlessTimeUp ==
    [][(appState = "QUIZ" /\ Len(results') = Len(results) + 1)
        => IF currentIndex < Len(questions) - 1
           THEN /\ currentIndex' = currentIndex + 1
                /\ appState' = (IF timer.seconds = 0 THEN "RESULT" ELSE "QUIZ")
           ELSE appState' = "RESULT" /\ currentIndex' = currentIndex]_vars

\* the second of three or more questions was answered with the time-up due:
\* Result, with two records and the index on the third question
C5_Witness ==
    /\ appState = "RESULT"
    /\ Len(questions) >= 3
    /\ event.name = "submit"
    /\ Len(results) = 2
    /\ currentIndex = 2

\* C6: with the timer at zero in Quiz the time-up is due whatever the index
\* and however many questions are unanswered, and every render made from
\* then on is the Result view.  The time-up appends no record and leaves
\* the index: the log grows, by one record of the question in progress,
\* only in a step in which the assembler submitted an answer, and in Result
\* it grows no more.
C6_TimeUpForcesResult ==
    /\ []((appState = "QUIZ" /\ timer.seconds = 0) => ENABLED TimeUp)
    /\ [][(appState = "QUIZ" /\ timer.seconds = 0 /\ appState' # Unmounted
            /\ <<appState, questions, currentIndex, results, timer>>'
               # <<appState, questions, currentIndex, results, timer>>)
           => (appState' = "RESULT" /\ questions' = questions)]_vars
    /\ [][(appState = "QUIZ" /\ appState' = "RESULT" /\ event'.name # "submit")
           => /\ timer.seconds = 0
              /\ UNCHANGED <<results, currentIndex, questions>>]_vars
    /\ [][(appState = "QUIZ" /\ appState' = "RESULT" /\ event'.name = "submit")
           => /\ AppendsForCurrent
              /\ currentIndex < Len(questions) - 1 => timer.seconds = 0]_vars
    /\ [][appState = "RESULT" => results' = results]_vars

\* the timer ran out before the first of several questions was answered
C6_Witness ==
    /\ appState = "RESULT"
    /\ event.name = "timeUp"
    /\ Len(questions) >= 2
    /\ results = <<>>
    /\ currentIndex = 0

RECURSIVE CorrectCount(_)
CorrectCount(log) ==
    IF log = <<>> THEN 0
    ELSE (IF Head(log).isCorrect THEN 1 ELSE 0) + CorrectCount(Tail(log))

\* C7: at Result the score is the number of records with isCorrect, and the
\* percentage is score / 9 * 100 rounded to the nearest integer, 9 being the
\* configured number of questions and not the number answered; three answers
\* of which two are correct give score 2 and percentage 22.
C7_Score ==
    appState = "RESULT"
    => /\ score = CorrectCount(results)
       /\ -9 < 2 * (9 * percentage - 100 * score)
       /\ 2 * (9 * percentage - 100 * score) <= 9
       /\ (Len(results) = 3 /\ CorrectCount(results) = 2)
            => (score = 2 /\ percentage = 22)

\* the time of a session of TOTAL_QUESTIONS questions ran out after three
\* answers, two of them correct
C7_Witness ==
    /\ appState = "RESULT"
    /\ Len(questions) = TOTAL_QUESTIONS
    /\ Len(results) = 3
    /\ CorrectCount(results) = 2
    /\ percentage = 22

\* the last question is on and the timer is at zero: the answer and the
\* time-up are both due
TieState ==
    /\ appState = "QUIZ"
    /\ timer.seconds = 0
    /\ currentIndex = Len(questions) - 1

C28_LogMatchesQuestions ==
    /\ appState = "QUIZ"
       => /\ 0 <= currentIndex
          /\ currentIndex < Len(questions)
          /\ Len(results) = currentIndex
    /\ appState \in {"QUIZ", "RESULT"}
       => /\ Len(results) <= Len(questions)
          /\ \A i \in 1..Len(results) : results[i].questionId = questions[i].id

\* the third question of a session is on: two records, of the first two
\* questions, which are not the same question
C28_Witness ==
    /\ appState = "QUIZ"
    /\ currentIndex = 2
    /\ Len(results) = 2
    /\ Len(questions) >= 3
    /\ results[1].questionId = questions[1].id
    /\ results[2].questionId = questions[2].id
    /\ questions[1].id # questions[2].id

\* C30: the remaining time of a quiz starts at SESSION_TIME, goes down by one
\* with each tick and changes in no other way while the quiz lasts, an answer
\* that moves to the next question included; it is never negative; the
\* time-up ends the quiz when it is 0 and cannot fire again in the session.
C30_RemainingTime ==
    /\ [](appState = "QUIZ"
            => (timer.mounted /\ timer.seconds >= 0 /\ timer.seconds <= SESSION_TIME))
    /\ [](appState = "RESULT" => (~ENABLED TimeUp /\ ~ENABLED Tick))
    /\ [][/\ (appState # "QUIZ" /\ appState' = "QUIZ")
               => timer' = [mounted |-> TRUE, seconds |-> SESSION_TIME]
          /\ (appState = "QUIZ" /\ appState' = "QUIZ")
               => \/ timer' = timer
                  \/ /\ timer'.mounted
                     /\ timer'.seconds = timer.seconds - 1
                     /\ UNCHANGED <<results, currentIndex, questions>>
          /\ (appState = "QUIZ" /\ appState' = "QUIZ" /\ results' # results)
               => timer' = timer
          /\ (appState = "QUIZ" /\ appState' \notin {"QUIZ", Unmounted}
              /\ results' = results)
               => (timer.seconds = 0 /\ appState' = "RESULT")]_vars

\* the second question is on and two seconds of the session are gone: the
\* answer to the first did not start the time again
C30_Witness ==
    /\ appState = "QUIZ"
    /\ currentIndex = 1
    /\ Len(results) = 1
    /\ timer.mounted
    /\ timer.seconds = SESSION_TIME - 2

\* the files served with success that hold no record: the empty file, the
\* file of a header only, the file whose record lines are all malformed
RecordlessSources ==
    { [kind |-> "ok", text |-> <<>>],
      [kind |-> "ok", text |-> HeaderLine],
      [kind |-> "ok", text |-> MalformedText] }

\* C15: when the source is empty or all its record lines are malformed, the
\* load returns the empty sequence and no error; the start of the session
\* that made the load shows the error of an empty repository and returns to
\* Lobby; Quiz is never on with zero questions.
C15_EmptyLoadReturnsToLobby ==
    /\ [](appState = "QUIZ" => questions # <<>>)
    /\ [][(appState = "LOADING" /\ inflight # Null /\ inflight' = Null
            /\ orphans' = orphans /\ source' \in RecordlessSources)
          => /\ loaded' = [state |-> "returned", value |-> <<>>, error |-> NoError]
             /\ appState' = "LOBBY"
             /\ alertShown'.text = "No questions available. Please ensure public/questions.csv exists and is populated."
             /\ UNCHANGED <<questions, currentIndex, results>>]_vars

\* a start over an earlier session was served a file of malformed lines only
C15_Witness ==
    /\ appState = "LOBBY"
    /\ source = [kind |-> "ok", text |-> MalformedText]
    /\ loaded.state = "returned"
    /\ loaded.value = <<>>
    /\ alertShown # NoError
    /\ questions # <<>>

\* ------------------------------------------------------------------------
\* Properties of the selector (checked under SpecSelect)
\* ------------------------------------------------------------------------

\* how often record r occurs in seq
Occurrences(seq, r) == Cardinality({k \in 1..Len(seq) : seq[k] = r})

\* the number of records of the repository with the requested difficulty
Matching ==
    Cardinality({k \in 1..Len(call.allQuestions) :
                    call.allQuestions[k].difficulty = call.difficulty})

\* C9: when some record has the requested difficulty D, the selector returns
\* min(count, number of records of difficulty D) records, each of difficulty
\* D, and no record of the repository more often than the repository holds it.
C9_SelectCountAndDistinct ==
    (ret.state # "none" /\ Matching > 0)
    => /\ ret.state = "returned"
       /\ Len(ret.value) = (IF call.count < Matching THEN call.count ELSE Matching)
       /\ \A k \in 1..Len(ret.value) : ret.value[k].difficulty = call.difficulty
       /\ \A r \in SampleQuestions :
            Occurrences(ret.value, r) <= Occurrences(call.allQuestions, r)

\* two of three matching records were returned, not the first two in
\* repository order, out of a repository that also holds another difficulty
C9_Witness ==
    /\ ret.state = "returned"
    /\ call.count = 2
    /\ Matching = 3
    /\ Len(call.allQuestions) = 4
    /\ Len(ret.value) = 2
    /\ ret.value[1] # ret.value[2]
    /\ ret.value # SubSeq(FilterByDifficulty(call.allQuestions, call.difficulty), 1, 2)

\* C10: the selector fails, returning no record, exactly when no record has
\* the requested difficulty, the empty repository included; a call for one
\* record or more never returns the empty sequence.
C10_SelectFailsOnEmpty ==
    ret.state # "none"
    => /\ (Matching = 0) <=> (ret.state = "thrown")
       /\ call.allQuestions = <<>> => ret.state = "thrown"
       /\ ret.state = "thrown" => (ret.value = <<>> /\ ret.error # NoError)
       /\ (ret.state = "returned" /\ call.count >= 1) => ret.value # <<>>

\* a call for records of a difficulty that a non-empty repository lacks failed
C10_Witness ==
    /\ ret.state = "thrown"
    /\ Len(call.allQuestions) >= 2
    /\ call.count >= 1
    /\ ret.error.arg = call.difficulty

\* the rearrangements of positions 1..n
IndexPermutations(n) ==
    {p \in [1..n -> 1..n] : \A i, j \in 1..n : p[i] = p[j] => i = j}

RECURSIVE Factorial(_)
Factorial(n) == IF n <= 1 THEN 1 ELSE n * Factorial(n - 1)

\* the records of the repository with the requested difficulty, in order
Filtered == FilterByDifficulty(call.allQuestions, call.difficulty)

\* C11: for every sequence of draws the shuffle outputs a rearrangement of
\* the filtered set (what is returned is the head of one, and the whole of it
\* when count reaches the size of the filtered set); every rearrangement of
\* the n positions comes from exactly one of the n! sequences of draws, so
\* that uniform draws make every rearrangement equally likely.
C11_ShuffleIsBijection ==
    ret.state = "returned"
    => /\ \E p \in IndexPermutations(Matching) :
            ret.value = [k \in 1..Len(ret.value) |-> Filtered[p[k]]]
       /\ call.count >= Matching
            => /\ \A r \in SampleQuestions :
                    Occurrences(ret.value, r) = Occurrences(Filtered, r)
               /\ \A p \in IndexPermutations(Matching) :
                    Cardinality({d \in Draws(Matching) :
                        FisherYates([k \in 1..Matching |-> k], d) = p}) = 1
               /\ Cardinality(Draws(Matching)) = Factorial(Matching)
               /\ ret.value = [k \in 1..Matching |->
                       Filtered[FisherYates([i \in 1..Matching |-> i], drawn)[k]]]

\* three different records were shuffled and came back whole, in the reverse
\* of their repository order, by the draws j = 0 for i = 2 and j = 1 for i = 1
C11_Witness ==
    /\ ret.state = "returned"
    /\ Matching = 3
    /\ call.count = 3
    /\ \A i, j \in 1..3 : Filtered[i] = Filtered[j] => i = j
    /\ ret.value = <<Filtered[3], Filtered[2], Filtered[1]>>
    /\ drawn = <<1, 0>>

\* ------------------------------------------------------------------------
\* Properties of the load (checked under SpecLoad)
\* ------------------------------------------------------------------------

\* the number of fields of a line: one more than it has bars
NumFields(line) == 1 + Cardinality({i \in 1..Len(line) : line[i] = "|"})

\* field k of a line, read off character by character
RECURSIVE FieldOf(_, _)
FieldOf(line, k) ==
    IF line = <<>> THEN <<>>
    ELSE IF Head(line) = "|"
         THEN (IF k = 1 THEN <<>> ELSE FieldOf(Tail(line), k - 1))
         ELSE IF k = 1 THEN <<Head(line)>> \o FieldOf(Tail(line), 1)
              ELSE FieldOf(Tail(line), k)

IsBlankLine(line) == \A i \in 1..Len(line) : IsSpace(line[i])

\* the lines of the file that are not blank, and those after the first of them
NonBlankLines == SelectSeq(sourceLines, LAMBDA line : ~IsBlankLine(line))
BodyLines == IF NonBlankLines = <<>> THEN <<>> ELSE Tail(NonBlankLines)

ShortBodyLines == SelectSeq(BodyLines, LAMBDA line : NumFields(line) < 7)
FullBodyLines == SelectSeq(BodyLines, LAMBDA line : NumFields(line) >= 7)

\* a load of a file that was served with success has settled
LoadedOk == loaded.state # "none" /\ source.kind = "ok"

\* C12: a record line of fewer than 7 fields gives no record and no error of
\* the load, and the other record lines are returned all the same: the load
\* returns one record for each record line of 7 fields or more, with the ids
\* of these lines, in their order.
C12_ShortLineSkipped ==
    (LoadedOk /\ ShortBodyLines # <<>>)
    => /\ loaded.state = "returned"
       /\ \A i \in 1..Len(ShortBodyLines) : \A k \in 1..Len(loaded.value) :
            loaded.value[k].id # FieldOf(ShortBodyLines[i], 1)
       /\ Len(loaded.value) = Len(FullBodyLines)
       /\ \A k \in 1..Len(FullBodyLines) :
            loaded.value[k].id = FieldOf(FullBodyLines[k], 1)

\* a file of a header, a line of five fields and a record line was loaded:
\* the one record comes from the line after the short one
C12_Witness ==
    /\ LoadedOk
    /\ Len(sourceLines) = 3
    /\ ~IsBlankLine(sourceLines[1])
    /\ NumFields(sourceLines[2]) = 5
    /\ NumFields(sourceLines[3]) = 7
    /\ Len(loaded.value) = 1
    /\ loaded.value[1].id = FieldOf(sourceLines[3], 1)

\* the text decodes as a JSON array whose elements are all strings
DecodesToStringArray(text) ==
    /\ JSONparse(text).ok
    /\ JSONparse(text).val.type = "array"
    /\ \A k \in 1..Len(JSONparse(text).val.value) :
         JSONparse(text).val.value[k].type = "string"

\* C13: a line of 7 fields whose scrambled-words field does not decode as a
\* JSON array of strings still gives a record, with scrambledWords the empty
\* sequence and with the id, context and template of the line; the load goes
\* on and returns.
C13_UndecodableWordsGiveEmpty ==
    LoadedOk
    => /\ loaded.state = "returned"
       /\ Len(loaded.value) = Len(FullBodyLines)
       /\ \A k \in 1..Len(FullBodyLines) :
            ~DecodesToStringArray(FieldOf(FullBodyLines[k], 4))
            => /\ k <= Len(loaded.value)
               /\ loaded.value[k].scrambledWords = EmptyArray
               /\ loaded.value[k].id = FieldOf(FullBodyLines[k], 1)
               /\ loaded.value[k].context = FieldOf(FullBodyLines[k], 2)
               /\ loaded.value[k].template = FieldOf(FullBodyLines[k], 3)

\* C14 as first stated: the load fails with an error when, and only when,
\* the fetch of the source fails (non-success status or transport error).
C14_FailsIffFetchFails ==
    loaded.state # "none"
    => ((loaded.state = "thrown") <=> (source.kind # "ok"))

\* C14, amended: the load never fails.  When the fetch of the source fails
\* (non-success status or transport error) the error is caught and the load
\* returns the empty sequence, whatever the body of the response; malformed
\* lines never make it fail either: a file served with success gives one
\* record per record line of 7 fields or more.
C14_FetchFailureGivesEmpty ==
    loaded.state # "none"
    => /\ loaded.state = "returned"
       /\ loaded.error = NoError
       /\ source.kind # "ok" => loaded.value = <<>>
       /\ source.kind = "ok" => Len(loaded.value) = Len(FullBodyLines)

\* a response without success whose body holds record lines was loaded
C14_Witness ==
    /\ loaded.state = "returned"
    /\ source.kind = "notOk"
    /\ FullBodyLines # <<>>
    /\ loaded.value = <<>>

\* the lines after line 1 of the file that are not blank and have 7 fields
\* or more
LinesAfterFirst ==
    IF sourceLines = <<>> THEN <<>>
    ELSE SelectSeq(Tail(sourceLines),
                   LAMBDA line : ~IsBlankLine(line) /\ NumFields(line) >= 7)

\* the records are those of these lines, one each, in order
RecordsOf(lines) ==
    /\ Len(loaded.value) = Len(lines)
    /\ \A k \in 1..Len(lines) :
         /\ k <= Len(loaded.value)
         /\ loaded.value[k].id = FieldOf(lines[k], 1)
         /\ loaded.value[k].context = FieldOf(lines[k], 2)
         /\ loaded.value[k].template = FieldOf(lines[k], 3)
         /\ loaded.value[k].correctSentence = FieldOf(lines[k], 5)

\* C16 as first stated: line 1 of the source is the header and is dropped,
\* blank lines are ignored, and every later line of 7 fields that is not
\* blank gives one record, in the order of the lines.
C16_LineOneIsHeader == LoadedOk => RecordsOf(LinesAfterFirst)

\* C16, amended: blank lines are ignored, the first line that is not blank is
\* the header and is dropped whatever it holds, and every later line of 7
\* fields that is not blank gives one record, in the order of the lines.
C16_FirstNonBlankIsHeader == LoadedOk => RecordsOf(FullBodyLines)

\* a file that starts with a blank line, then a header of 7 fields and a
\* record line: the one record is that of the record line
C16_Witness ==
    /\ LoadedOk
    /\ Len(sourceLines) = 3
    /\ IsBlankLine(sourceLines[1])
    /\ sourceLines[2] = HeaderLine
    /\ NumFields(sourceLines[3]) = 7
    /\ Len(loaded.value) = 1
    /\ loaded.value[1].id = FieldOf(sourceLines[3], 1)

\* ------------------------------------------------------------------------
\* Properties of the sentence assembler (checked under SpecBuilder)
\* ------------------------------------------------------------------------

\* the places of the template where a maximal run of three "_" or more starts
MarkerStarts(t) ==
    {i \in 1..(Len(t) - 2) :
        /\ t[i] = "_" /\ t[i + 1] = "_" /\ t[i + 2] = "_"
        /\ i = 1 \/ t[i - 1] # "_"}

\* the marker run that is n-th in the template
NthMarker(t, n) ==
    LET start == CHOOSE i \in MarkerStarts(t) :
                    Cardinality({j \in MarkerStarts(t) : j < i}) = n - 1
        end == CHOOSE e \in start..Len(t) :
                    /\ \A j \in start..e : t[j] = "_"
                    /\ e = Len(t) \/ t[e + 1] # "_"
    IN SubSeq(t, start, end)

\* parts with the n-th blank written as the n-th marker run of the template
RECURSIVE Rebuilt(_, _, _)
Rebuilt(t, segments, n) ==
    IF segments = <<>> THEN <<>>
    ELSE IF Head(segments) = Null
         THEN NthMarker(t, n) \o Rebuilt(t, Tail(segments), n + 1)
         ELSE Head(segments) \o Rebuilt(t, Tail(segments), n)

\* the words of the question: its scrambled words and its distractor
WordsOfQuestion(q) ==
    [k \in 1..(Len(q.scrambledWords.value) + 1) |->
        IF k <= Len(q.scrambledWords.value)
        THEN q.scrambledWords.value[k].value
        ELSE q.distractor]

\* a slot is empty when it holds no word, the empty word counting as none
EmptySlot(slots, i) == i \notin DOMAIN slots \/ slots[i] = <<>>

\* C17: once the assembler is initialised for a question there are as many
\* blank slots as the template has maximal runs of three "_" or more, the
\* literal segments and the slots are in the order of the template, every
\* slot is empty, and the pool holds the scrambled words and the distractor,
\* each word as often as they do, in some order.
C17_Initialised ==
    event.name = "effect"
    => /\ Cardinality(BlankIndices) = Cardinality(MarkerStarts(question.template))
       /\ Rebuilt(question.template, parts, 1) = question.template
       /\ \A k \in 1..Len(parts) : parts[k] # Null => ~TestMarker(parts[k])
       /\ \A i \in BlankIndices : EmptySlot(placedWords, i)
       /\ placedWords = <<>>
       /\ Len(availableWords) = Len(WordsOfQuestion(question))
       /\ \A k \in 1..Len(availableWords) :
            Occurrences(availableWords, availableWords[k])
            = Occurrences(WordsOfQuestion(question), availableWords[k])

\* the assembler was initialised for the question whose words repeat: three
\* slots, and the four words in an order that is not that of the record
C17_Witness ==
    /\ event.name = "effect"
    /\ question.id = <<"b", "2">>
    /\ Cardinality(BlankIndices) = 3
    /\ availableWords = << <<"b">>, <<"b">>, <<"a">>, <<"a">> >>

\* the blank slots that are empty, as 0-based indices into parts
EmptySlots == {i \in BlankIndices : EmptySlot(placedWords, i)}

\* slot i is left as it was by the step
SlotKept(i) ==
    /\ (i \in DOMAIN placedWords') <=> (i \in DOMAIN placedWords)
    /\ i \in DOMAIN placedWords => placedWords'[i] = placedWords[i]

\* the pool after the step is the pool before it with n more of word w
\* (n = -1: one fewer), the other words as often as before
PoolChangedBy(w, n) ==
    /\ Len(availableWords') = Len(availableWords) + n
    /\ Occurrences(availableWords', w) = Occurrences(availableWords, w) + n
    /\ \A k \in 1..Len(availableWords) :
         availableWords[k] # w
         => Occurrences(availableWords', availableWords[k])
            = Occurrences(availableWords, availableWords[k])

\* C18: placing a word of the pool while some blank slot is empty assigns it
\* to the first empty slot in template order, takes exactly one occurrence of
\* it out of the pool, the other occurrences and the other words staying, and
\* leaves every other slot as it was.
C18_PlaceWord ==
    [][(event'.name = "wordClick" /\ question' = question /\ ~effectDue
        /\ EmptySlots # {})
       => /\ \E i \in EmptySlots :
               /\ \A j \in EmptySlots : i <= j
               /\ i \in DOMAIN placedWords'
               /\ placedWords'[i] = event'.arg
               /\ \A j \in BlankIndices \ {i} : SlotKept(j)
          /\ DOMAIN placedWords' \subseteq BlankIndices
          /\ PoolChangedBy(event'.arg, -1)
          /\ parts' = parts]_vars

\* "a" was placed in the second slot, after "b" in the first, and the pool
\* still holds the other "a"
C18_Witness ==
    /\ event.name = "wordClick"
    /\ event.arg = <<"a">>
    /\ question.id = <<"b", "2">>
    /\ DOMAIN placedWords = {1, 3}
    /\ placedWords[1] = <<"b">>
    /\ placedWords[3] = <<"a">>
    /\ Occurrences(availableWords, <<"a">>) = 1
    /\ Occurrences(availableWords, <<"b">>) = 1

\* C19: placing a word while every blank slot holds a word changes nothing:
\* the pool, the word included, and the slots stay as they were.
C19_PlaceWordWhenFull ==
    [][(event'.name = "wordClick" /\ question' = question /\ ~effectDue
        /\ EmptySlots = {})
       => UNCHANGED <<availableWords, placedWords, parts>>]_vars

\* both slots were filled and the third word was clicked: it is still in
\* the pool and in no slot
C19_Witness ==
    /\ event.name = "wordClick"
    /\ ~effectDue
    /\ Cardinality(BlankIndices) = 2
    /\ EmptySlots = {}
    /\ Occurrences(availableWords, event.arg) = 1
    /\ \A i \in DOMAIN placedWords : placedWords[i] # event.arg

\* C20: clearing a blank slot that holds a word empties that slot and puts
\* exactly one occurrence of the word back into the pool, every other slot
\* staying as it was; clearing a slot that is empty already changes neither
\* the pool nor the slots.
C20_ClearSlot ==
    [][(event'.name = "blankClick" /\ question' = question /\ ~effectDue)
       => /\ event'.slot \in BlankIndices
          /\ parts' = parts
          /\ IF EmptySlot(placedWords, event'.slot)
             THEN UNCHANGED <<availableWords, placedWords>>
             ELSE /\ EmptySlot(placedWords', event'.slot)
                  /\ PoolChangedBy(placedWords[event'.slot], 1)
                  /\ \A j \in BlankIndices \ {event'.slot} : SlotKept(j)]_vars

\* the three slots were filled and the middle one cleared: its word is back
\* at the end of the pool and the outer slots still hold theirs
C20_Witness ==
    /\ event.name = "blankClick"
    /\ event.slot = 3
    /\ question.id = <<"b", "2">>
    /\ DOMAIN placedWords = {1, 5}
    /\ placedWords[1] = <<"a">>
    /\ placedWords[5] = <<"a">>
    /\ availableWords = << <<"b">>, <<"b">> >>

\* C21: while the assembler of a question is in use, isComplete is true if
\* and only if every blank slot of the template holds a word.
C21_CompleteIffAllFilled ==
    BuilderReady
    => (isComplete <=> \A i \in BlankIndices : ~EmptySlot(placedWords, i))

\* the word of the n-th blank slot in template order, the empty string when
\* the slot is empty
NthSlotWord(n) ==
    LET i == CHOOSE b \in BlankIndices :
                Cardinality({j \in BlankIndices : j < b}) = n - 1
    IN IF EmptySlot(placedWords, i) THEN <<>> ELSE placedWords[i]

SlotWords == [n \in 1..Cardinality(BlankIndices) |-> NthSlotWord(n)]

\* the template with its maximal runs of three "_" or more replaced, in
\* order, by the words ws, everything else left as it is
RECURSIVE Filled(_, _)
Filled(t, ws) ==
    IF t = <<>> THEN <<>>
    ELSE IF MarkerRun(t) >= 3
         THEN Head(ws) \o Filled(SubSeq(t, MarkerRun(t) + 1, Len(t)), Tail(ws))
    ELSE IF MarkerRun(t) > 0
         THEN SubSeq(t, 1, MarkerRun(t))
              \o Filled(SubSeq(t, MarkerRun(t) + 1, Len(t)), ws)
    ELSE <<Head(t)>> \o Filled(Tail(t), ws)

\* the segments from the k-th on, one after the other, a blank slot written
\* as the word it holds and as nothing when it holds none
RECURSIVE Spelled(_)
Spelled(k) ==
    IF k > Len(parts) THEN <<>>
    ELSE (IF parts[k] # Null THEN parts[k]
          ELSE IF EmptySlot(placedWords, k - 1) THEN <<>>
          ELSE placedWords[k - 1]) \o Spelled(k + 1)

\* C22: the sentence built on submit is the segments of the assembler in
\* their order, every literal segment kept and every blank slot replaced by
\* the word assigned to it (nothing for a slot without one), every run of
\* white space collapsed to one space and the ends trimmed, that is its words
\* joined by single spaces; once the effect has made the segments from the
\* template it is the template with its blanks so replaced, a function of
\* the template and the slot assignments alone.
C22_BuildAnswer ==
    [][(event'.name = "submit" /\ results' # results)
       => /\ event'.arg = Join(WordsOf(Spelled(1)), <<" ">>)
          /\ ~effectDue
               => event'.arg
                  = Join(WordsOf(Filled(question.template, SlotWords)), <<" ">>)
          /\ results'[Len(results')].userAnswer = event'.arg]_vars

\* a sentence was submitted whose template has white space at both ends and
\* a run of three white-space characters between its two filled slots
C22_Witness ==
    /\ event.name = "submit"
    /\ event.arg = <<"a", "m", " ", "I">>
    /\ results # <<>>
    /\ results[Len(results)].questionId = <<"b", "6">>
    /\ results[Len(results)].userAnswer = event.arg

\* how often the slots hold the word w
HeldBySlots(w) == Cardinality({i \in DOMAIN placedWords : placedWords[i] = w})

\* C29: from the effect that makes the pool of a question on, the words of
\* the pool together with the words the slots hold are the scrambled words
\* and the distractor of the question, each as often as there: no word is
\* lost and none is duplicated.
C29_WordsConserved ==
    (BuilderReady /\ ~effectDue)
    => /\ Len(availableWords) + Cardinality(DOMAIN placedWords)
          = Len(WordsOfQuestion(question))
       /\ \A k \in 1..Len(WordsOfQuestion(question)) :
            Occurrences(availableWords, WordsOfQuestion(question)[k])
              + HeldBySlots(WordsOfQuestion(question)[k])
            = Occurrences(WordsOfQuestion(question), WordsOfQuestion(question)[k])

\* C31: a sentence is submitted only while the template of the current
\* question is cut into its blank slots and every one of them holds a word,
\* so no record of the log was built from a template with a gap.
C31_SubmitOnlyWhenFilled ==
    [][(event'.name = "submit" /\ results' # results)
       => /\ Cardinality(BlankIndices)
               = Cardinality(MarkerStarts(question.template))
          /\ \A i \in BlankIndices : ~EmptySlot(placedWords, i)]_vars

\* C32: when an answer moves the session to its next question, the state of
\* the assembler is replaced by that of the new question: the render that
\* first shows what the effect of the new question set has the parts of its
\* template, no slot holding a word but the one a click handled with that
\* render has just placed, and in pool and slots together the scrambled
\* words and the distractor of the new question, each as often as the
\* question has it; no word placed for the question before and no word of
\* its pool is there, also when the two questions have the same id or the
\* same template.
C32_ReplacedOnAdvance ==
    [][(effectDue /\ ~painted /\ ~effectDue' /\ question' # NoQuestion)
       => /\ question' = questions'[currentIndex' + 1]
          /\ parts' = ParseTemplate(question'.template)
          /\ \A i \in DOMAIN placedWords' :
               event'.name = "wordClick" /\ placedWords'[i] = event'.arg
          /\ Len(availableWords') + Cardinality(DOMAIN placedWords')
               = Len(WordsOfQuestion(question'))
          /\ \A k \in 1..Len(WordsOfQuestion(question')) :
               Occurrences(availableWords', WordsOfQuestion(question')[k])
                 + Cardinality({i \in DOMAIN placedWords' :
                        placedWords'[i] = WordsOfQuestion(question')[k]})
               = Occurrences(WordsOfQuestion(question'), WordsOfQuestion(question')[k])]_vars

\* ------------------------------------------------------------------------
\* Properties of the scorer (checked under SpecScore)
\* ------------------------------------------------------------------------

\* normalize of the specification: the characters . ? ! , removed, lower
\* case, the words that white space separates joined by single spaces
Normalized(s) ==
    Join(WordsOf(ToLowerCase(SelectSeq(s, LAMBDA c : c \notin {".", "?", "!", ","}))),
         <<" ">>)

\* a sentence with nothing but letters and single spaces between its words
Plain(s) ==
    /\ \A k \in 1..Len(s) : s[k] \in {"a", "b", " "}
    /\ s = <<>> \/ (s[1] # " " /\ s[Len(s)] # " ")
    /\ \A k \in 1..(Len(s) - 1) : ~(s[k] = " " /\ s[k + 1] = " ")

\* C23: an answer is scored correct if and only if it equals the reference
\* sentence once both are normalised; so two sentences already free of
\* punctuation, upper case and spare white space are scored correct only when
\* they are the same sentence.
C23_CorrectIffSameNormalized ==
    \A k \in 1..Len(results) :
        /\ results[k].isCorrect
           <=> Normalized(results[k].userAnswer) = Normalized(results[k].correctAnswer)
        /\ (Plain(results[k].userAnswer) /\ Plain(results[k].correctAnswer))
           => (results[k].isCorrect
               <=> results[k].userAnswer = results[k].correctAnswer)

\* an answer that differs from its reference in case, in punctuation and in
\* white space was scored correct
C23_Witness ==
    /\ appState = "RESULT"
    /\ Len(results) = 1
    /\ results[1].userAnswer = <<"A", "\t", "b">>
    /\ results[1].correctAnswer = <<"a", ",", " ", "b", ".">>
    /\ results[1].isCorrect

\* C24: the normaliser is idempotent: normalising a sentence it has
\* normalised gives that sentence again, for every answer scored and every
\* reference sentence.
C24_NormalizeIdempotent ==
    \A k \in 1..Len(results) :
        /\ clean(clean(results[k].userAnswer)) = clean(results[k].userAnswer)
        /\ clean(clean(results[k].correctAnswer)) = clean(results[k].correctAnswer)

\* an answer was scored that its normal form differs from: punctuation before
\* white space before an upper-case letter
C24_Witness ==
    /\ Len(results) = 1
    /\ results[1].userAnswer = <<".", " ", "A">>
    /\ clean(results[1].userAnswer) = <<"a">>
    /\ clean(clean(results[1].userAnswer)) = <<"a">>
    /\ results[1].correctAnswer = <<" ", "a", " ", "\t", "b", " ">>
    /\ clean(results[1].correctAnswer) = <<"a", " ", "b">>

\* ------------------------------------------------------------------------
\* Properties of handleWordClick called with any word (checked under
\* SpecCaller)
\* ------------------------------------------------------------------------

\* C25: placing a word that is not in the pool while some blank slot is empty
\* still assigns the word to the first empty slot in template order, the
\* other slots staying as they were, and leaves the pool as it was.
C25_PlaceAbsentWord ==
    [][(event'.name = "placeWord" /\ question' = question /\ ~effectDue
        /\ EmptySlots # {}
        /\ \A k \in 1..Len(availableWords) : availableWords[k] # event'.arg)
       => /\ \E i \in EmptySlots :
               /\ \A j \in EmptySlots : i <= j
               /\ i \in DOMAIN placedWords'
               /\ placedWords'[i] = event'.arg
               /\ \A j \in BlankIndices \ {i} : SlotKept(j)
          /\ availableWords' = availableWords
          /\ parts' = parts]_vars

\* the word z, which the question does not have, went into the second slot
\* after a word of the pool went into the first: the pool still holds the
\* three others
C25_Witness ==
    /\ event.name = "placeWord"
    /\ event.arg = <<"z">>
    /\ question.id = <<"b", "2">>
    /\ DOMAIN placedWords = {1, 3}
    /\ placedWords[1] = <<"a">>
    /\ placedWords[3] = <<"z">>
    /\ Len(availableWords) = 3
    /\ Occurrences(availableWords, <<"z">>) = 0

\* ------------------------------------------------------------------------
\* Frame of the selector (checked under SpecSelect)
\* ------------------------------------------------------------------------

\* C26: a call of the selector leaves the repository it was given as it was,
\* the same records in the same order, whether the call returns or throws.
C26_PoolNotMutated ==
    [][ret' # ret => call'.allQuestions = call.allQuestions]_vars

\* the selector returned the two Middle School records of a repository of
\* three in the other order, and the repository is in its own order still
C26_Witness ==
    /\ ret.state = "returned"
    /\ Len(call.allQuestions) = 3
    /\ call.allQuestions[1].id = <<"a">>
    /\ call.allQuestions[2].id = <<"c">>
    /\ call.allQuestions[3].id = <<"b">>
    /\ call.difficulty = MiddleSchool
    /\ Len(ret.value) = 2
    /\ ret.value[1].id = <<"b">>
    /\ ret.value[2].id = <<"a">>

\* ------------------------------------------------------------------------
\* Properties of a running quiz (checked under SpecQuiz)
\* ------------------------------------------------------------------------

\* C27: with the ticks of the timer delivered, every Quiz ends in Result,
\* whatever the user does or leaves undone.
C27_QuizEndsInResult ==
    (appState = "QUIZ") ~> (appState = "RESULT")

\* ------------------------------------------------------------------------
\* Properties of the questions of a session (C33 checked under SpecStart,
\* C35 under Spec, C36 under SpecBuilder)
\* ------------------------------------------------------------------------

\* C33: in Quiz and in Result the session has at least one question and at
\* most TOTAL_QUESTIONS, as many as the repository has of the selected
\* difficulty up to that number; each is a record of the repository with the
\* difficulty selected when the session was started, and none occurs twice; a
\* restart from Result asks for the difficulty of the session it follows.
C33_SessionQuestions ==
    /\ [](appState \in {"QUIZ", "RESULT"}
            => /\ Len(questions) >= 1
               /\ Len(questions) <= TOTAL_QUESTIONS
               /\ Len(questions)
                  = Min(TOTAL_QUESTIONS,
                        Len(FilterByDifficulty(loaded.value, selectedDifficulty)))
               /\ \A k \in 1..Len(questions) :
                    /\ questions[k].difficulty = selectedDifficulty
                    /\ Occurrences(loaded.value, questions[k]) = 1
                    /\ Occurrences(questions, questions[k]) = 1)
    /\ [][(appState = "RESULT" /\ appState' = "LOADING")
          => /\ inflight' = selectedDifficulty
             /\ inflight' = questions[1].difficulty
             /\ UNCHANGED <<selectedDifficulty, questions>>]_vars
    /\ [][(appState = "LOADING" /\ appState' = "QUIZ")
          => /\ selectedDifficulty' = inflight
             /\ \A k \in 1..Len(questions') : questions'[k].difficulty = inflight]_vars

\* a session of TOTAL_QUESTIONS of the Middle School records of a bank that
\* has more of them was started after a session with answers, and it does
\* not start with the first record of the bank
C33_Witness ==
    /\ appState = "QUIZ"
    /\ discardedLog
    /\ selectedDifficulty = MiddleSchool
    /\ Len(FilterByDifficulty(loaded.value, MiddleSchool)) > TOTAL_QUESTIONS
    /\ Len(questions) = TOTAL_QUESTIONS
    /\ questions[1] # FilterByDifficulty(loaded.value, MiddleSchool)[1]
    /\ \A i, j \in 1..Len(questions) : i # j => questions[i].id # questions[j].id

\* C35: while the machine is in Loading a selection is in flight and no
\* event of the application but its resolution can happen: the buttons, the
\* clock and the assembler are not there, so the state, the question list,
\* the index and the answer log change only by the success or the failure
\* of that selection, and without it the machine stays in Loading for as
\* long as the host keeps ToeflApp mounted; a selection is launched only
\* when none is in flight, and none is in flight in Lobby, Quiz or Result.
\* The close button and the card of the host hide and show the panel and
\* change nothing of the machine.  The selection an unmounted ToeflApp left
\* pending is none of this machine: when it settles, nothing of the machine
\* changes.
C35_LoadingWaits ==
    /\ [](appState = "LOADING"
            => /\ inflight # Null
               /\ ~ENABLED SelectDifficulty
               /\ ~ENABLED LaunchPracticeSession
               /\ ~ENABLED StartNewSession
               /\ ~ENABLED Tick
               /\ ~ENABLED TimeUp
               /\ ~ENABLED RunEffect
               /\ ~ENABLED WordClick
               /\ ~ENABLED BlankClick
               /\ ~ENABLED SubmitSentence
               /\ ~ENABLED Quit)
    /\ [](inflight # Null => appState = "LOADING")
    /\ [][(appState = "LOADING" /\ (CloseApp \/ OpenApp))
          => UNCHANGED <<appState, questions, currentIndex, results, inflight>>]_vars
    /\ [][StartQuizSettledUnmounted
          => UNCHANGED <<appState, questions, currentIndex, results, inflight>>]_vars
    /\ [][(appState = "LOADING"
           /\ <<appState, questions, currentIndex, results>>'
              # <<appState, questions, currentIndex, results>>)
          => \/ StartQuizResolved
             \/ StartQuizRejected
             \/ (appState' = Unmounted /\ UNCHANGED <<questions, currentIndex, results>>)]_vars
    /\ [][inflight' # Null => (inflight = Null \/ UNCHANGED inflight)]_vars
    /\ [][(inflight' # Null /\ inflight = Null)
          => (appState \in {"LOBBY", "RESULT"} /\ appState' = "LOADING")]_vars

\* a restart from Result is waiting for its selection: the questions and the
\* log of the session before are still there
C35_Witness ==
    /\ appState = "LOADING"
    /\ inflight = MiddleSchool
    /\ Len(questions) = 2
    /\ Len(results) = 2

\* the orderings of n elements, as sequences of their places 1..n
Orderings(n) == {q \in [1..n -> 1..n] : \A i, j \in 1..n : q[i] = q[j] => i = j}

\* C36: the pool the assembler shows first is shuffled as the selector
\* shuffles, by one draw for each i from length - 1 down to 1, so that every
\* ordering of the pool comes from exactly one sequence of draws.
C36_PoolShuffledAsSelector ==
    (BuilderReady /\ event.name = "effect")
    => LET n == Len(availableWords) IN
       /\ \A draws \in SortDraws(n) :
            \A selectorDraws \in Draws(n) : DOMAIN draws = DOMAIN selectorDraws
       /\ \A q \in Orderings(n) :
            Cardinality({draws \in SortDraws(n) :
                            SortWith([i \in 1..n |-> i], draws).value = q}) = 1

\* ------------------------------------------------------------------------
\* Properties of the Result view (checked under SpecFull)
\* ------------------------------------------------------------------------

\* C34: at Result the score is at least 0 and at most the number of records
\* of the log, which is at most the number of questions of the session,
\* which is at most TOTAL_QUESTIONS; the percentage is between 0 and 100, and
\* it is 100 exactly when TOTAL_QUESTIONS questions were answered and every
\* answer is correct, so that a session of fewer questions shows less than
\* 100 even when all its answers are correct.
C34_ScoreAndPercentage ==
    appState = "RESULT"
    => /\ 0 <= score
       /\ score <= Len(results)
       /\ Len(results) <= Len(questions)
       /\ Len(questions) <= TOTAL_QUESTIONS
       /\ 0 <= percentage
       /\ percentage <= 100
       /\ percentage = 100
          <=> (Len(results) = TOTAL_QUESTIONS
               /\ \A k \in 1..Len(results) : results[k].isCorrect)
       /\ Len(questions) < TOTAL_QUESTIONS => percentage < 100

\* a session of eight questions ended with eight correct answers: 89 percent
C34_Witness ==
    /\ appState = "RESULT"
    /\ Len(questions) = TOTAL_QUESTIONS - 1
    /\ Len(results) = Len(questions)
    /\ \A k \in 1..Len(results) : results[k].isCorrect
    /\ score = 8
    /\ percentage = 89

====
